---- MODULE Spec2Model ----
(***************************************************************************)
(* CanillitaBot: the extraction / quality-gate / delivery pipeline.        *)
(*                                                                         *)
(* Two state machines share this module:                                   *)
(*   Spec         the per-item delivery path: the bot process (one of the  *)
(*                three implementations of the polling path), the RQ       *)
(*                workers running the queue handlers, the job queues, the   *)
(*                processed_posts table and the comment channel;            *)
(*   SpecExtract  one call of extract_article: the loop over the ruleset's *)
(*                method_priority with the quality gate.                    *)
(***************************************************************************)
EXTENDS Integers, Sequences, FiniteSets, TLC

(***************************************************************************)
(* Bounds of the model.                                                    *)
(***************************************************************************)
NumItems == 1
NumWorkers == 1
MaxJobs == 1
MaxPostCalls == 2
MaxMethods == 2

(***************************************************************************)
(* Program constants.                                                      *)
(***************************************************************************)
min_article_length == 200
MinTitleLength == 10
LowQualityMinLines == 5
LowQualityMinWords == 50

Items == 1..NumItems
Bot == 0
Workers == 1..NumWorkers
Procs == {Bot} \cup Workers

VARIABLES
    records,          \* processed_posts table: post_id -> row
    dbUp,             \* FALSE while sqlite3 raises sqlite3.Error
    botCommented,     \* channel: the submission already carries a bot comment
    jobs,             \* pending RQ jobs, per queue and post_id
    url_kind,         \* what the submission links to
    botImpl,          \* which polling implementation the bot process runs
    queue_available,  \* the bot's queue_manager and queue_manager.is_available()
    run,              \* per process: the handler invocation in progress
    postCalls,        \* history: post_comments invocations per post_id
    deliveryFailed,   \* history: post_comments returned False for the post_id
    ex,               \* one extract_article call
    gate,             \* one is_valid_article call
    split,            \* one format_comment / _split_content_for_comments call
    rules,            \* the provider-config cache of one Config object
    cycle,            \* one _process_subreddit call of the polling loop
    cleanup,          \* one final_content_cleanup call
    brk,              \* one _find_good_break_point call
    chan,             \* post_comments calls on one submission of the channel
    hnd               \* one job of an RQ worker: a queue handler invocation

pipeVars == <<records, dbUp, botCommented, jobs, url_kind, botImpl,
              queue_available, run, postCalls, deliveryFailed>>
auxVars == <<gate, split, rules, cycle, cleanup, brk, chan, hnd>>
vars == <<records, dbUp, botCommented, jobs, url_kind, botImpl,
          queue_available, run, postCalls, deliveryFailed, ex, auxVars>>

(***************************************************************************)
(* Articles and rulesets.  A candidate article is described by what the    *)
(* quality gate measures of it.                                            *)
(***************************************************************************)
Methods == {"structured_beautifulsoup", "enhanced_newspaper3k"}
MethodNames == Methods \cup {"unknown_method"}

TitleLens == {0, 9, 10}
ContentLens == {99, 100, 199, 200}
LineStats == {<<5, 1>>, <<10, 5>>, <<10, 6>>}
WordStats == {<<50, 1>>, <<100, 41>>, <<100, 42>>}

Candidates ==
    { [title_len |-> t, content_len |-> c, reject_match |-> r,
       lines |-> l[1], unique_lines |-> l[2],
       words |-> w[1], unique_words |-> w[2],
       extraction_method |-> "untagged"] :
        t \in TitleLens, c \in ContentLens, r \in BOOLEAN,
        l \in LineStats, w \in WordStats }

NoneArticle ==
    [title_len |-> 0, content_len |-> 0, reject_match |-> FALSE,
     lines |-> 0, unique_lines |-> 0, words |-> 0, unique_words |-> 0,
     extraction_method |-> "None"]

IsNone(article_data) == article_data.extraction_method = "None"

NoMinLength == -1
Rulesets ==
    { [name |-> n, method_priority |-> mp, min_length |-> ml,
       ratio_num |-> 6, ratio_den |-> 10] :
        n \in {"default"},
        mp \in UNION { [1..k -> MethodNames] : k \in 0..MaxMethods },
        ml \in {NoMinLength, 100} }

DefaultRuleset ==
    [name |-> "default",
     method_priority |-> <<"structured_beautifulsoup", "enhanced_newspaper3k">>,
     min_length |-> NoMinLength, ratio_num |-> 6, ratio_den |-> 10]

\* provider_config.get('content', {}).get('min_length', config.min_article_length)
RulesetMinLength(provider_config) ==
    IF provider_config.min_length = NoMinLength
    THEN min_article_length
    ELSE provider_config.min_length

\* A faulty variant: the duplicate-line rule already applies to 5 lines.
is_low_quality_content_from_five_lines(article_data, provider_config) ==
    \/ /\ article_data.lines >= LowQualityMinLines
       /\ article_data.unique_lines * provider_config.ratio_den
            < article_data.lines * provider_config.ratio_num
    \/ /\ article_data.words > LowQualityMinWords
       /\ article_data.unique_words * provider_config.ratio_den * 10
            < article_data.words * provider_config.ratio_num * 7

\* len(set(lines)) < len(lines) * r  and  len(set(words)) < len(words) * (r * 0.7)
\* with r = ratio_num / ratio_den, in integer arithmetic
is_low_quality_content(article_data, provider_config) ==
    \/ /\ article_data.lines > LowQualityMinLines
       /\ article_data.unique_lines * provider_config.ratio_den
            < article_data.lines * provider_config.ratio_num
    \/ /\ article_data.words > LowQualityMinWords
       /\ article_data.unique_words * provider_config.ratio_den * 10
            < article_data.words * provider_config.ratio_num * 7

is_valid_article_no_length_check(article_data, provider_config) ==
    /\ ~IsNone(article_data)
    /\ article_data.title_len >= MinTitleLength
    /\ ~article_data.reject_match
    /\ ~is_low_quality_content(article_data, provider_config)

is_valid_article(article_data, provider_config) ==
    /\ ~IsNone(article_data)
    /\ ~(article_data.content_len < RulesetMinLength(provider_config))
    /\ ~(article_data.title_len = 0 \/ article_data.title_len < MinTitleLength)
    /\ ~article_data.reject_match
    /\ ~is_low_quality_content(article_data, provider_config)

\* article_data['extraction_method'] = method
TagArticle(article_data, method) ==
    [article_data EXCEPT !.extraction_method = method]

(***************************************************************************)
(* SpecGate: one call of is_valid_article on a candidate.                  *)
(*   gate.checks  the checks the call evaluated, in order                  *)
(*   gate.log     the logger.debug message of the failing check, "" if none*)
(***************************************************************************)
LogTooShort == "Article too short"
LogMissingTitle == "Article missing valid title"
LogRejectPattern == "Article content matches rejection pattern"
LogDuplicateLines == "Content has too many duplicate lines"
LogWordDiversity == "Content has poor word diversity"

GateTitleLens == TitleLens \cup {12}
GateContentLens == ContentLens \cup {50, 250}
GateLineStats == LineStats \cup {<<10, 1>>, <<6, 3>>, <<6, 4>>}

GateCandidates ==
    { [title_len |-> t, content_len |-> c, reject_match |-> r,
       lines |-> l[1], unique_lines |-> l[2],
       words |-> w[1], unique_words |-> w[2],
       extraction_method |-> "untagged"] :
        t \in GateTitleLens, c \in GateContentLens, r \in BOOLEAN,
        l \in GateLineStats, w \in WordStats }

GateRulesets ==
    { rs \in Rulesets : rs.method_priority = <<>> }

\* A faulty variant: the title is looked at before the length.
is_valid_article_log_title_first(article_data, provider_config) ==
    IF article_data.title_len = 0 \/ article_data.title_len < MinTitleLength
    THEN [checks |-> <<"title">>, log |-> LogMissingTitle]
    ELSE IF article_data.content_len < RulesetMinLength(provider_config)
    THEN [checks |-> <<"title", "min_length">>, log |-> LogTooShort]
    ELSE [checks |-> <<"title", "min_length", "reject_patterns",
                       "duplicate_lines", "word_diversity">>, log |-> ""]

\* the checks is_valid_article evaluates before it returns, and what it logs
is_valid_article_log(article_data, provider_config) ==
    IF article_data.content_len < RulesetMinLength(provider_config)
    THEN [checks |-> <<"min_length">>, log |-> LogTooShort]
    ELSE IF article_data.title_len = 0
            \/ article_data.title_len < MinTitleLength
    THEN [checks |-> <<"min_length", "title">>, log |-> LogMissingTitle]
    ELSE IF article_data.reject_match
    THEN [checks |-> <<"min_length", "title", "reject_patterns">>,
          log |-> LogRejectPattern]
    ELSE IF /\ article_data.lines > LowQualityMinLines
            /\ article_data.unique_lines * provider_config.ratio_den
                 < article_data.lines * provider_config.ratio_num
    THEN [checks |-> <<"min_length", "title", "reject_patterns",
                       "duplicate_lines">>,
          log |-> LogDuplicateLines]
    ELSE IF /\ article_data.words > LowQualityMinWords
            /\ article_data.unique_words * provider_config.ratio_den * 10
                 < article_data.words * provider_config.ratio_num * 7
    THEN [checks |-> <<"min_length", "title", "reject_patterns",
                       "duplicate_lines", "word_diversity">>,
          log |-> LogWordDiversity]
    ELSE [checks |-> <<"min_length", "title", "reject_patterns",
                       "duplicate_lines", "word_diversity">>,
          log |-> ""]

GateIdle ==
    [pc |-> "idle", article |-> NoneArticle, ruleset |-> DefaultRuleset,
     ret |-> FALSE, checks |-> <<>>, log |-> ""]

GateStart(article_data, provider_config) ==
    [GateIdle EXCEPT !.pc = "called", !.article = article_data,
                     !.ruleset = provider_config]

\* is_valid_article(article_data, provider_config) runs and returns
GateCheck ==
    /\ gate.pc = "called"
    /\ LET r == is_valid_article_log(gate.article, gate.ruleset) IN
       gate' = [gate EXCEPT
                  !.pc = "returned",
                  !.ret = is_valid_article(gate.article, gate.ruleset),
                  !.checks = r.checks,
                  !.log = r.log]
    /\ UNCHANGED <<pipeVars, ex, split, rules, cycle, cleanup, brk, chan, hnd>>

NextGate == GateCheck

(***************************************************************************)
(* SpecExtract: extract_with_retry around extract_article.                 *)
(*   ex.pc       "loop"     inside extract_article's for-loop              *)
(*               "returned" extract_article has returned ex.result         *)
(*               "done"     extract_with_retry has returned ex.retry_result*)
(*   ex.offered  history: per iteration the method, what its strategy      *)
(*               produced (raised / none / article), the gate's verdict,   *)
(*               and the candidate when the gate accepted it               *)
(***************************************************************************)
max_retries == 3

StrategyOutcomes ==
    { [kind |-> k, article |-> NoneArticle] : k \in {"raised", "none"} }
        \cup { [kind |-> "article", article |-> c] : c \in Candidates }

ExIdle ==
    [pc |-> "idle", ruleset |-> DefaultRuleset, idx |-> 1, attempt |-> 0,
     offered |-> <<>>, result |-> NoneArticle, retry_result |-> NoneArticle,
     calls |-> 0, sleeps |-> 0, fetches |-> 0]

ExStart(provider_config) ==
    [ExIdle EXCEPT !.pc = "loop", !.ruleset = provider_config, !.calls = 1]

\* A faulty variant of the loop body: "if article_data:" without the gate, so the first
\* strategy that yields any candidate wins.
extract_article_step_no_gate(e, out) ==
    LET method == e.ruleset.method_priority[e.idx] IN
    IF method \in Methods /\ out.kind = "article"
    THEN [e EXCEPT !.pc = "returned",
                   !.result = TagArticle(out.article, method)]
    ELSE [e EXCEPT !.idx = @ + 1]

\* A faulty variant: the loop body has no try/except, so a raising strategy
\* ends the call through the outer handler, which returns None.
extract_article_step_raise_aborts(e, out) ==
    LET method == e.ruleset.method_priority[e.idx] IN
    IF method \notin Methods
    THEN [e EXCEPT !.idx = @ + 1]
    ELSE IF out.kind = "raised"
    THEN [e EXCEPT !.pc = "returned", !.result = NoneArticle]
    ELSE IF out.kind = "article" /\ is_valid_article(out.article, e.ruleset)
    THEN [e EXCEPT !.pc = "returned",
                   !.result = TagArticle(out.article, method)]
    ELSE [e EXCEPT !.idx = @ + 1]

\* One iteration of "for method in extraction_methods" with the strategy's
\* outcome `out`; an unknown method name runs no strategy.
extract_article_step(e, out) ==
    LET method == e.ruleset.method_priority[e.idx] IN
    IF method \notin Methods
    THEN [e EXCEPT !.idx = @ + 1]
    ELSE IF out.kind = "raised"
    THEN [e EXCEPT !.idx = @ + 1]
    ELSE IF out.kind = "article" /\ is_valid_article(out.article, e.ruleset)
    THEN [e EXCEPT !.pc = "returned",
                   !.result = TagArticle(out.article, method)]
    ELSE [e EXCEPT !.idx = @ + 1]

Offer(e, out) ==
    LET method == e.ruleset.method_priority[e.idx] IN
    IF method \notin Methods
    THEN [method |-> method, kind |-> "unknown", article |-> NoneArticle,
          gate |-> FALSE]
    ELSE LET passed == out.kind = "article"
                         /\ is_valid_article(out.article, e.ruleset) IN
         [method |-> method, kind |-> out.kind,
          article |-> IF passed THEN out.article ELSE NoneArticle,
          gate |-> passed]

\* the HTTP requests for the URL a strategy makes before it ends as `kind`:
\* _extract_structured_content calls session.get once;
\* _extract_with_newspaper_enhanced calls Article.download and then
\* session.get, and returns None after the first when that one fails
StrategyFetches(method, kind) ==
    IF method = "structured_beautifulsoup" THEN {1}
    ELSE IF method = "enhanced_newspaper3k"
    THEN IF kind = "none" THEN {1, 2} ELSE {2}
    ELSE {0}

\* for method in extraction_methods: ... (one iteration)
ExtractStrategy ==
    /\ ex.pc = "loop"
    /\ ex.idx <= Len(ex.ruleset.method_priority)
    /\ \E out \in StrategyOutcomes :
       \E n \in StrategyFetches(ex.ruleset.method_priority[ex.idx], out.kind) :
          ex' = [extract_article_step(ex, out) EXCEPT
                    !.offered = Append(ex.offered, Offer(ex, out)),
                    !.fetches = @ + n]
    /\ UNCHANGED <<pipeVars, auxVars>>

\* the loop is exhausted: "All extraction methods failed", return None
ExtractAllFailed ==
    /\ ex.pc = "loop"
    /\ ex.idx > Len(ex.ruleset.method_priority)
    /\ ex' = [ex EXCEPT !.pc = "returned", !.result = NoneArticle]
    /\ UNCHANGED <<pipeVars, auxVars>>

\* extract_with_retry: "if result: return result"
RetryReturn ==
    /\ ex.pc = "returned"
    /\ ~IsNone(ex.result)
    /\ ex' = [ex EXCEPT !.pc = "done", !.retry_result = ex.result]
    /\ UNCHANGED <<pipeVars, auxVars>>

\* ArticleExtractor.extract_article: get_provider(self.config, url) raises
\* before the provider is entered; extract_with_retry's "except Exception"
\* catches it and logs the failed attempt
ExtractArticleRaises ==
    /\ ex.pc = "loop"
    /\ ex.idx = 1
    /\ ex.offered = <<>>
    /\ ex' = [ex EXCEPT !.pc = "caught", !.result = NoneArticle]
    /\ UNCHANGED <<pipeVars, auxVars>>

\* the attempt failed: extract_article returned a falsy result or raised
AttemptFailed == \/ ex.pc = "returned" /\ IsNone(ex.result)
                 \/ ex.pc = "caught"

\* A faulty variant: one attempt too many.
HasAttemptsLeft_off_by_one(attempt) == attempt < max_retries

\* "for attempt in range(max_retries)" has a further iteration, which is also
\* the condition of the sleep: attempt < max_retries - 1
HasAttemptsLeft(attempt) == attempt < max_retries - 1

\* extract_with_retry: a failed attempt; sleep 2 ** attempt and try again
RetryAgain ==
    /\ AttemptFailed
    /\ HasAttemptsLeft(ex.attempt)
    /\ ex' = [ex EXCEPT !.pc = "loop", !.attempt = @ + 1, !.idx = 1,
                        !.offered = <<>>, !.calls = @ + 1, !.sleeps = @ + 1,
                        !.fetches = 0]
    /\ UNCHANGED <<pipeVars, auxVars>>

\* extract_with_retry: attempts exhausted, return None
RetryGiveUp ==
    /\ AttemptFailed
    /\ ~HasAttemptsLeft(ex.attempt)
    /\ ex' = [ex EXCEPT !.pc = "done", !.retry_result = NoneArticle]
    /\ UNCHANGED <<pipeVars, auxVars>>

NextExtract ==
    \/ ExtractStrategy
    \/ ExtractArticleRaises
    \/ ExtractAllFailed
    \/ RetryReturn
    \/ RetryAgain
    \/ RetryGiveUp

(***************************************************************************)
(* The processed_posts table (core/database.py).                           *)
(***************************************************************************)
Null == "NULL"
ErrFailedValidation == "Failed validation"
ErrNotNews == "Not a news article, YouTube video, or X/Twitter post"
ErrUnsupported == "Unsupported content type"
ErrExtraction == "Article extraction failed"
ErrCommentFailed == "Comment posting failed"
\* f"Comment posting error: {str(e)}" with e the TypeError of the rejected call
ErrCommentError ==
    "Comment posting error: record_processed_post() got an unexpected keyword argument 'comment_content'"

\* error messages of the program that contain "extraction failed"
ContainsExtractionFailed(error_message) == error_message \in {ErrExtraction}

\* the parameters of Database.record_processed_post
record_processed_post_params ==
    {"post_id", "subreddit", "title", "url", "author", "created_utc",
     "success", "error_message", "article_data"}

BaseKwargs ==
    {"post_id", "subreddit", "title", "url", "author", "created_utc",
     "success", "error_message"}

\* Python raises TypeError before the body runs when a keyword is unknown
CallRaisesTypeError(kwargs) == ~(kwargs \subseteq record_processed_post_params)

\* the row INSERTed: success, error_message and the content fingerprint
Row(success, error_message, article_data) ==
    [success |-> success,
     error_message |-> error_message,
     article_title_len |-> IF IsNone(article_data) THEN 0
                           ELSE article_data.title_len,
     article_content_length |-> IF IsNone(article_data) THEN 0
                                ELSE article_data.content_len,
     extraction_method |-> IF IsNone(article_data) THEN ""
                           ELSE article_data.extraction_method]

\* A faulty variant: a storage error reports the post as not processed.
is_post_processed_error_as_new(store, post_id, sqlite_ok) ==
    sqlite_ok /\ post_id \in DOMAIN store

\* SELECT 1 FROM processed_posts WHERE post_id = ?; True on sqlite3.Error
is_post_processed(store, post_id, sqlite_ok) ==
    IF ~sqlite_ok THEN TRUE ELSE post_id \in DOMAIN store

\* INSERT OR REPLACE INTO processed_posts ...; the table after the call
\* (unchanged when sqlite3.Error is raised and the call returns False)
record_processed_post(store, post_id, success, error_message, article_data, sqlite_ok) ==
    IF ~sqlite_ok
    THEN store
    ELSE [id \in DOMAIN store \cup {post_id} |->
             IF id = post_id
             THEN Row(success, error_message, article_data)
             ELSE store[id]]

(***************************************************************************)
(* The comment channel (clients/internal/comments.py).                     *)
(***************************************************************************)
\* CommentManager.post_comments: True when the bot has already commented or
\* the root reply is posted, False when the channel raises
post_comments(commented, channel_ok) ==
    IF ~channel_ok
    THEN [ret |-> FALSE, commented |-> commented]
    ELSE [ret |-> TRUE, commented |-> TRUE]

(***************************************************************************)
(* Handler invocations.                                                    *)
(***************************************************************************)
BotImpls == {"SubmissionHandler", "BotManager", "LegacyBotManager"}
UrlKinds == {"article", "other"}
Queues == {"posts", "articles", "retry"}

\* what extract_with_retry can hand to the delivery path: None or a candidate
\* that passed the gate of the ruleset in use, tagged with its strategy
ExtractResults ==
    {NoneArticle} \cup
    { TagArticle(c, m) :
        c \in { d \in Candidates : /\ is_valid_article(d, DefaultRuleset)
                                   /\ d.lines = 5
                                   /\ d.words = 50 },
        m \in Methods }

NewRun(ep, i) ==
    [pc |-> "idle", ep |-> ep, item |-> i, hadRecord |-> i \in DOMAIN records,
     article |-> NoneArticle, comment_success |-> FALSE, fetched |-> FALSE,
     posted |-> FALSE, writes |-> 0, ret |-> "pending", check_error |-> FALSE,
     validated |-> FALSE, routes |-> <<>>]

IdleRun ==
    [pc |-> "idle", ep |-> "none", item |-> 0, hadRecord |-> FALSE,
     article |-> NoneArticle, comment_success |-> FALSE, fetched |-> FALSE,
     posted |-> FALSE, writes |-> 0, ret |-> "pending", check_error |-> FALSE,
     validated |-> FALSE, routes |-> <<>>]

Free(p) == run[p].pc \in {"idle", "done"}

Wrote(sqlite_ok) == IF sqlite_ok THEN 1 ELSE 0

\* the keyword arguments of the call that records the delivery outcome
RecordKwargs(ep) ==
    IF ep \in {"SubmissionHandler", "process_article", "retry_failed_job"}
    THEN BaseKwargs \cup {"article_data", "comment_content"}
    ELSE BaseKwargs \cup {"article_data"}

\* A faulty variant: the extraction-failure branch returns without recording.
RecordExtractionFailure_forgotten(store, post_id, sqlite_ok) == store

\* record_processed_post(..., success=False,
\*                       error_message="Article extraction failed")
RecordExtractionFailure(store, post_id, sqlite_ok) ==
    record_processed_post(store, post_id, FALSE, ErrExtraction, NoneArticle,
                          sqlite_ok)

(***************************************************************************)
(* The bot process: one submission of a polling cycle.                     *)
(*   SubmissionHandler  core/submission.py + core/processor.py             *)
(*   BotManager         core/bot.py                                        *)
(*   LegacyBotManager   bot.py (no queue)                                  *)
(***************************************************************************)
\* "if self.database.is_post_processed(post_id): return True"
BotBegin(i) ==
    /\ Free(Bot)
    /\ LET processed == is_post_processed(records, i, dbUp) IN
       run' = [run EXCEPT ![Bot] =
                 [NewRun(botImpl, i) EXCEPT
                    !.pc = IF processed THEN "done" ELSE "validate",
                    !.ret = IF processed THEN "True" ELSE "pending",
                    !.check_error = ~dbUp]]
    /\ UNCHANGED <<records, dbUp, botCommented, jobs, url_kind, botImpl,
                   queue_available, postCalls, deliveryFailed, ex, auxVars>>

\* validate_submission; on failure record "Failed validation", return False;
\* otherwise choose the queue or the direct path
BotValidate ==
    /\ run[Bot].pc = "validate"
    /\ \E valid \in BOOLEAN :
         IF ~valid
         THEN /\ records' = record_processed_post(records, run[Bot].item, FALSE,
                               ErrFailedValidation, NoneArticle, dbUp)
              /\ run' = [run EXCEPT ![Bot].pc = "done", ![Bot].ret = "False",
                                    ![Bot].writes = @ + Wrote(dbUp)]
         ELSE /\ run' = IF botImpl # "LegacyBotManager" /\ queue_available
                         THEN [run EXCEPT ![Bot].pc = "enqueue",
                                          ![Bot].validated = TRUE]
                         ELSE [run EXCEPT ![Bot].pc = "direct",
                                          ![Bot].validated = TRUE,
                                          ![Bot].routes = Append(@, "direct")]
              /\ UNCHANGED records
    /\ UNCHANGED <<dbUp, botCommented, jobs, url_kind, botImpl,
                   queue_available, postCalls, deliveryFailed, ex, auxVars>>

\* A faulty variant: no "return True" after a successful enqueue, so the
\* submission is processed directly as well.
EnqueueRoute_always_direct(outcome) == "direct"

\* _enqueue_submission after the enqueue attempt: "if job_id: return True",
\* else (None, or an exception in the try block) fall back to direct
\* processing
EnqueueRoute(outcome) == IF outcome = "job_id" THEN "queue" ELSE "direct"

\* _enqueue_submission: enqueue_post_discovery returns a job id (return True),
\* or returns None or raises (fall back to direct processing)
BotEnqueue ==
    /\ run[Bot].pc = "enqueue"
    /\ \E outcome \in {"job_id", "None", "raised"} :
         LET queued == IF outcome = "job_id" THEN <<"queue">> ELSE <<>> IN
         /\ IF outcome = "job_id"
            THEN /\ jobs["posts"][run[Bot].item] < MaxJobs
                 /\ jobs' = [jobs EXCEPT !["posts"][run[Bot].item] = @ + 1]
            ELSE UNCHANGED jobs
         /\ run' = IF EnqueueRoute(outcome) = "queue"
                   THEN [run EXCEPT ![Bot].pc = "done", ![Bot].ret = "True",
                                    ![Bot].routes = @ \o queued]
                   ELSE [run EXCEPT ![Bot].pc = "direct",
                                    ![Bot].routes = Append(@ \o queued, "direct")]
    /\ UNCHANGED <<records, dbUp, botCommented, url_kind, botImpl,
                   queue_available, postCalls, deliveryFailed, ex, auxVars>>

\* direct processing up to the extraction: not a news article (record, return
\* False); extract_with_retry returned None (record "Article extraction
\* failed", return False); or an article to post
BotDirect ==
    /\ run[Bot].pc = "direct"
    /\ IF url_kind[run[Bot].item] # "article"
       THEN /\ records' = record_processed_post(records, run[Bot].item, FALSE,
                             ErrNotNews, NoneArticle, dbUp)
            /\ run' = [run EXCEPT ![Bot].pc = "done", ![Bot].ret = "False",
                                  ![Bot].writes = @ + Wrote(dbUp)]
       ELSE \E article_data \in ExtractResults :
              IF IsNone(article_data)
              THEN /\ records' = RecordExtractionFailure(records,
                                    run[Bot].item, dbUp)
                   /\ run' = [run EXCEPT ![Bot].pc = "done",
                                         ![Bot].ret = "False",
                                         ![Bot].fetched = TRUE,
                                         ![Bot].writes = @ + Wrote(dbUp)]
              ELSE /\ run' = [run EXCEPT ![Bot].pc = "post",
                                         ![Bot].fetched = TRUE,
                                         ![Bot].article = article_data]
                   /\ UNCHANGED records
    /\ UNCHANGED <<dbUp, botCommented, jobs, url_kind, botImpl,
                   queue_available, postCalls, deliveryFailed, ex, auxVars>>

\* format_comment; comment_success = post_comments(submission, comments)
BotPost ==
    /\ run[Bot].pc = "post"
    /\ postCalls[run[Bot].item] < MaxPostCalls
    /\ \E channel_ok \in BOOLEAN :
         LET i == run[Bot].item
             r == post_comments(botCommented[i], channel_ok) IN
         /\ botCommented' = [botCommented EXCEPT ![i] = r.commented]
         /\ postCalls' = [postCalls EXCEPT ![i] = @ + 1]
         /\ deliveryFailed' = [deliveryFailed EXCEPT ![i] = @ \/ ~r.ret]
         /\ run' = [run EXCEPT ![Bot].pc = "record", ![Bot].posted = TRUE,
                               ![Bot].comment_success = r.ret]
    /\ UNCHANGED <<records, dbUp, jobs, url_kind, botImpl, queue_available, ex, auxVars>>

\* record_processed_post(..., success=comment_success, ...); return
\* comment_success.  ContentProcessor passes comment_content, which the
\* Database method does not accept: the TypeError leaves process_submission.
BotRecord ==
    /\ run[Bot].pc = "record"
    /\ LET i == run[Bot].item
           cs == run[Bot].comment_success IN
       IF CallRaisesTypeError(RecordKwargs(run[Bot].ep))
       THEN /\ run' = [run EXCEPT ![Bot].pc = "done", ![Bot].ret = "TypeError"]
            /\ UNCHANGED records
       ELSE /\ records' = record_processed_post(records, i, cs,
                             IF cs THEN Null ELSE ErrCommentFailed,
                             run[Bot].article, dbUp)
            /\ run' = [run EXCEPT ![Bot].pc = "done",
                                  ![Bot].ret = IF cs THEN "True" ELSE "False",
                                  ![Bot].writes = @ + Wrote(dbUp)]
    /\ UNCHANGED <<dbUp, botCommented, jobs, url_kind, botImpl,
                   queue_available, postCalls, deliveryFailed, ex, auxVars>>

(***************************************************************************)
(* The RQ workers: tasks/queue_handlers.py.                                *)
(***************************************************************************)
\* a worker takes a 'posts' job: process_discovered_post up to
\* "if database.is_post_processed(post_id): return skipped"
DiscoverBegin(w, i) ==
    /\ Free(w)
    /\ jobs["posts"][i] > 0
    /\ jobs' = [jobs EXCEPT !["posts"][i] = @ - 1]
    /\ LET processed == is_post_processed(records, i, dbUp) IN
       run' = [run EXCEPT ![w] =
                 [NewRun("process_discovered_post", i) EXCEPT
                    !.pc = IF processed THEN "done" ELSE "route",
                    !.ret = IF processed THEN "skipped" ELSE "pending",
                    !.check_error = ~dbUp]]
    /\ UNCHANGED <<records, dbUp, botCommented, url_kind, botImpl,
                   queue_available, postCalls, deliveryFailed, ex, auxVars>>

\* process_discovered_post: route a news URL to the articles queue (the job id
\* is None when the enqueue fails; "routed" is returned either way), or record
\* "Unsupported content type"
DiscoverRoute(w) ==
    /\ run[w].pc = "route"
    /\ LET i == run[w].item IN
       IF url_kind[i] = "article"
       THEN /\ \E enqueued \in BOOLEAN :
                 IF enqueued
                 THEN /\ jobs["articles"][i] < MaxJobs
                      /\ jobs' = [jobs EXCEPT !["articles"][i] = @ + 1]
                 ELSE UNCHANGED jobs
            /\ run' = [run EXCEPT ![w].pc = "done", ![w].ret = "routed"]
            /\ UNCHANGED records
       ELSE /\ records' = record_processed_post(records, i, FALSE,
                             ErrUnsupported, NoneArticle, dbUp)
            /\ run' = [run EXCEPT ![w].pc = "done", ![w].ret = "skipped",
                                  ![w].writes = @ + Wrote(dbUp)]
            /\ UNCHANGED jobs
    /\ UNCHANGED <<dbUp, botCommented, url_kind, botImpl, queue_available,
                   postCalls, deliveryFailed, ex, auxVars>>

\* a worker takes an 'articles' job (process_article) or a 'retry' job
\* (retry_failed_job with job_type 'article', which calls process_article);
\* neither looks at the table before extracting
ArticleBegin(w, i, queue) ==
    /\ Free(w)
    /\ queue \in {"articles", "retry"}
    /\ jobs[queue][i] > 0
    /\ jobs' = [jobs EXCEPT ![queue][i] = @ - 1]
    /\ run' = [run EXCEPT ![w] =
                 [NewRun(IF queue = "articles" THEN "process_article"
                         ELSE "retry_failed_job", i) EXCEPT !.pc = "extract"]]
    /\ UNCHANGED <<records, dbUp, botCommented, url_kind, botImpl,
                   queue_available, postCalls, deliveryFailed, ex, auxVars>>

\* process_article: article_data = extract_with_retry(url); on None record
\* "Article extraction failed" and return status failed
ArticleExtract(w) ==
    /\ run[w].pc = "extract"
    /\ \E article_data \in ExtractResults :
         IF IsNone(article_data)
         THEN /\ records' = RecordExtractionFailure(records, run[w].item, dbUp)
              /\ run' = [run EXCEPT ![w].pc = "done", ![w].ret = "failed",
                                    ![w].fetched = TRUE,
                                    ![w].writes = @ + Wrote(dbUp)]
         ELSE /\ run' = [run EXCEPT ![w].pc = "post", ![w].fetched = TRUE,
                                    ![w].article = article_data]
              /\ UNCHANGED records
    /\ UNCHANGED <<dbUp, botCommented, jobs, url_kind, botImpl,
                   queue_available, postCalls, deliveryFailed, ex, auxVars>>

\* process_article: format_comment; comment_success = post_comments(...)
ArticlePost(w) ==
    /\ run[w].pc = "post"
    /\ postCalls[run[w].item] < MaxPostCalls
    /\ \E channel_ok \in BOOLEAN :
         LET i == run[w].item
             r == post_comments(botCommented[i], channel_ok) IN
         /\ botCommented' = [botCommented EXCEPT ![i] = r.commented]
         /\ postCalls' = [postCalls EXCEPT ![i] = @ + 1]
         /\ deliveryFailed' = [deliveryFailed EXCEPT ![i] = @ \/ ~r.ret]
         /\ run' = [run EXCEPT ![w].pc = "record", ![w].posted = TRUE,
                               ![w].comment_success = r.ret]
    /\ UNCHANGED <<records, dbUp, jobs, url_kind, botImpl, queue_available, ex, auxVars>>

\* process_article: "Record the result".  The call passes comment_content, the
\* TypeError is caught by "except Exception as e", which records
\* success=False, "Comment posting error: ..." and returns status failed.
ArticleRecord(w) ==
    /\ run[w].pc = "record"
    /\ LET i == run[w].item
           cs == run[w].comment_success IN
       IF CallRaisesTypeError(RecordKwargs(run[w].ep))
       THEN /\ records' = record_processed_post(records, i, FALSE,
                             ErrCommentError, run[w].article, dbUp)
            /\ run' = [run EXCEPT ![w].pc = "done", ![w].ret = "failed",
                                  ![w].writes = @ + Wrote(dbUp)]
       ELSE /\ records' = record_processed_post(records, i, cs,
                             IF cs THEN Null ELSE ErrCommentFailed,
                             run[w].article, dbUp)
            /\ run' = [run EXCEPT ![w].pc = "done",
                                  ![w].ret = IF cs THEN "success"
                                             ELSE "partial_success",
                                  ![w].writes = @ + Wrote(dbUp)]
    /\ UNCHANGED <<dbUp, botCommented, jobs, url_kind, botImpl,
                   queue_available, postCalls, deliveryFailed, ex, auxVars>>

(***************************************************************************)
(* Enqueues from outside the polling path.                                 *)
(***************************************************************************)
\* tools/enqueue_post.py: enqueue_article_processing for a given post
enqueue_post(i) ==
    /\ jobs["articles"][i] < MaxJobs
    /\ jobs' = [jobs EXCEPT !["articles"][i] = @ + 1]
    /\ UNCHANGED <<records, dbUp, botCommented, url_kind, botImpl,
                   queue_available, run, postCalls, deliveryFailed, ex, auxVars>>

\* QueueManager.enqueue_retry for an 'article' job
enqueue_retry(i) ==
    /\ jobs["retry"][i] < MaxJobs
    /\ jobs' = [jobs EXCEPT !["retry"][i] = @ + 1]
    /\ UNCHANGED <<records, dbUp, botCommented, url_kind, botImpl,
                   queue_available, run, postCalls, deliveryFailed, ex, auxVars>>

(***************************************************************************)
(* SpecSplit: one call of format_comment, with _split_content_for_comments *)
(* and _find_good_break_point (clients/internal/comments.py).  A text is a *)
(* sequence of characters.                                                 *)
(***************************************************************************)
PadLen == 8
MaxTailLen == 5
MaxCommentLength == 13
ShortTailLen == 3

Chars == {"a", ".", " ", "\n"}
IsSpace(c) == c \in {" ", "\n"}

Max(S) == CHOOSE x \in S : \A y \in S : y <= x
Min(S) == CHOOSE x \in S : \A y \in S : x <= y

\* s[:n]
PyPrefix(s, n) ==
    IF n >= 0 THEN SubSeq(s, 1, Min({n, Len(s)}))
    ELSE SubSeq(s, 1, Max({Len(s) + n, 0}))

\* A faulty variant: s[n+1:]
PySuffix_off_by_one(s, n) == SubSeq(s, n + 2, Len(s))

\* s[n:]
PySuffix(s, n) ==
    IF n >= 0 THEN SubSeq(s, n + 1, Len(s))
    ELSE SubSeq(s, Max({Len(s) + n, 0}) + 1, Len(s))

\* s.lstrip()
RECURSIVE lstrip(_)
lstrip(s) ==
    IF s = <<>> THEN <<>>
    ELSE IF IsSpace(Head(s)) THEN lstrip(Tail(s))
    ELSE s

\* text.rfind(sub): the highest index (from 0) where sub occurs, or -1
rfind(text, sub) ==
    LET at == { i \in 0..(Len(text) - Len(sub)) :
                  SubSeq(text, i + 1, i + Len(sub)) = sub } IN
    IF at = {} THEN -1 ELSE Max(at)

sentence_endings ==
    << <<".", " ">>, <<".", "\n">>, <<"!", " ">>, <<"!", "\n">>,
       <<"?", " ">>, <<"?", "\n">> >>

\* "for ending in sentence_endings": best_break after the endings from k on
RECURSIVE BestBreak(_, _, _)
BestBreak(text, k, best_break) ==
    IF k > Len(sentence_endings) THEN best_break
    ELSE LET ending == sentence_endings[k]
             pos == rfind(text, ending) IN
         IF pos * 10 > Len(text) * 7 /\ pos > best_break
         THEN BestBreak(text, k + 1, pos + Len(ending))
         ELSE BestBreak(text, k + 1, best_break)

\* CommentManager._find_good_break_point; the thresholds len(text) * 0.7 and
\* len(text) * 0.8 are compared in integers
find_good_break_point(text) ==
    LET last_double_newline == rfind(text, <<"\n", "\n">>)
        best_break == BestBreak(text, 1, -1)
        last_space == rfind(text, <<" ">>) IN
    IF last_double_newline * 10 > Len(text) * 7
    THEN last_double_newline + 2
    ELSE IF best_break > 0 THEN best_break
    ELSE IF last_space * 10 > Len(text) * 8 THEN last_space + 1
    ELSE -1

\* A faulty variant: the break point is looked for in all the remaining text.
CutChunk_whole_text(remaining_content, space) ==
    LET break_point == find_good_break_point(remaining_content) IN
    IF break_point > 0
    THEN [chunk |-> PyPrefix(remaining_content, break_point),
          rest |-> lstrip(PySuffix(remaining_content, break_point))]
    ELSE [chunk |-> PyPrefix(remaining_content, space),
          rest |-> lstrip(PySuffix(remaining_content, space))]

\* A faulty variant: after a hard cut the text is not advanced.
CutChunk_rest_not_advanced(remaining_content, space) ==
    LET chunk == PyPrefix(remaining_content, space)
        break_point == find_good_break_point(chunk) IN
    IF break_point > 0
    THEN [chunk |-> PyPrefix(remaining_content, break_point),
          rest |-> lstrip(PySuffix(remaining_content, break_point))]
    ELSE [chunk |-> chunk,
          rest |-> lstrip(remaining_content)]

\* one chunk cut off remaining_content, which is longer than space
CutChunk(remaining_content, space) ==
    LET chunk == PyPrefix(remaining_content, space)
        break_point == find_good_break_point(chunk) IN
    IF break_point > 0
    THEN [chunk |-> PyPrefix(remaining_content, break_point),
          rest |-> lstrip(PySuffix(remaining_content, break_point))]
    ELSE [chunk |-> chunk,
          rest |-> lstrip(PySuffix(remaining_content, space))]

\* which branch of "if break_point > 0" cuts the chunk
CutKind(remaining_content, space) ==
    IF find_good_break_point(PyPrefix(remaining_content, space)) > 0
    THEN "break_point" ELSE "budget"

\* A faulty variant: the template's own length is not deducted.
available_space_ignoring_template(max_comment_length, overhead) ==
    max_comment_length

\* self.config.max_comment_length - len(template.format(content="", ...))
available_space(max_comment_length, overhead) ==
    max_comment_length - overhead

\* len(template.format(content=content_part, ...)) for a template with one
\* {content} field
formatted_length(overhead, content_part) == overhead + Len(content_part)

RECURSIVE TextsOfLength(_)
TextsOfLength(n) ==
    IF n = 0 THEN {<<>>}
    ELSE { Append(t, c) : t \in TextsOfLength(n - 1), c \in Chars }

Pad == [k \in 1..PadLen |-> "a"]

\* article bodies: any text up to MaxTailLen, bare or after PadLen letters
Texts ==
    LET tails == UNION { TextsOfLength(n) : n \in 0..MaxTailLen } IN
    tails \cup { Pad \o t : t \in tails }

\* the texts with a tail of at most ShortTailLen characters
ShortTexts ==
    { t \in Texts :
        Len(t) <= ShortTailLen \/ Len(t) - PadLen \in 0..ShortTailLen }

\* lengths of the main template (with title and url) and of the continuation
\* template, both with empty content
Overheads == {2, MaxCommentLength - 2, MaxCommentLength - 1}

\* template lengths that leave no room: max_comment_length minus the overhead
\* is 0 or -1 (and one that leaves room, for the mixed cases)
DegenerateOverheads == {2, MaxCommentLength, MaxCommentLength + 1}

\* the model follows the while loop for at most MaxParts segments
MaxParts == 16

SplitIdle ==
    [pc |-> "idle", content |-> <<>>, max_comment_length |-> MaxCommentLength,
     main_comment_overhead |-> 0, continuation_overhead |-> 0,
     first_comment_space |-> 0, continuation_space |-> 0,
     parts |-> <<>>, remaining_content |-> <<>>, cuts |-> <<>>,
     formatted_comments |-> <<>>]

\* format_comment up to the call of _split_content_for_comments
SplitStart(content, main_overhead, cont_overhead) ==
    [SplitIdle EXCEPT
       !.pc = "first",
       !.content = content,
       !.main_comment_overhead = main_overhead,
       !.continuation_overhead = cont_overhead,
       !.first_comment_space = available_space(MaxCommentLength, main_overhead),
       !.continuation_space = available_space(MaxCommentLength, cont_overhead)]

\* _split_content_for_comments up to the while loop: empty content, content
\* that fits, or the first chunk
SplitFirstChunk ==
    /\ split.pc = "first"
    /\ IF split.content = <<>>
       THEN split' = [split EXCEPT !.pc = "split", !.parts = << <<>> >>]
       ELSE IF Len(split.content) <= split.first_comment_space
       THEN split' = [split EXCEPT !.pc = "split",
                                   !.parts = <<split.content>>]
       ELSE LET c == CutChunk(split.content, split.first_comment_space) IN
            split' = [split EXCEPT
                        !.pc = "loop",
                        !.parts = <<c.chunk>>,
                        !.remaining_content = c.rest,
                        !.cuts = <<CutKind(split.content,
                                           split.first_comment_space)>>]
    /\ UNCHANGED <<pipeVars, ex, gate, rules, cycle, cleanup, brk, chan, hnd>>

\* one iteration of "while remaining_content"
SplitContinuation ==
    /\ split.pc = "loop"
    /\ split.remaining_content # <<>>
    /\ Len(split.parts) < MaxParts
    /\ IF Len(split.remaining_content) <= split.continuation_space
       THEN split' = [split EXCEPT
                        !.pc = "split",
                        !.parts = Append(@, split.remaining_content)]
       ELSE LET c == CutChunk(split.remaining_content,
                              split.continuation_space) IN
            split' = [split EXCEPT
                        !.parts = Append(@, c.chunk),
                        !.remaining_content = c.rest,
                        !.cuts = Append(@,
                                   CutKind(split.remaining_content,
                                           split.continuation_space))]
    /\ UNCHANGED <<pipeVars, ex, gate, rules, cycle, cleanup, brk, chan, hnd>>

\* the while loop ends with nothing remaining: return parts
SplitReturn ==
    /\ split.pc = "loop"
    /\ split.remaining_content = <<>>
    /\ split' = [split EXCEPT !.pc = "split"]
    /\ UNCHANGED <<pipeVars, ex, gate, rules, cycle, cleanup, brk, chan, hnd>>

\* format_comment: the main template around the first part, the continuation
\* template around the others (their lengths)
FormatComments ==
    /\ split.pc = "split"
    /\ split' = [split EXCEPT
                   !.pc = "formatted",
                   !.formatted_comments =
                      [i \in 1..Len(split.parts) |->
                          formatted_length(
                             IF i = 1 THEN split.main_comment_overhead
                             ELSE split.continuation_overhead,
                             split.parts[i])]]
    /\ UNCHANGED <<pipeVars, ex, gate, rules, cycle, cleanup, brk, chan, hnd>>

NextSplit ==
    \/ SplitFirstChunk
    \/ SplitContinuation
    \/ SplitReturn
    \/ FormatComments

(***************************************************************************)
(* Provider configuration lookup: Config.get_provider_config of            *)
(* core/config.py ("core") and of config.py ("legacy"), with its two       *)
(* caches _provider_cache and _default_provider.                           *)
(***************************************************************************)
NumCallers == 2
MaxLookups == 3

Callers == 1..NumCallers
ConfigImpls == {"core", "legacy"}
Origins == {"a.com", "b.com"}

\* config/providers/<origin>.yaml: absent, not parseable, parseable without
\* content.selectors, or parseable with content.selectors
FileStates == {"missing", "malformed", "invalid", "valid"}
ProviderFiles == Origins \cup {"default"}

\* a host name is a sequence of pieces; "www." and the registered names
\* occur in both letter cases
HostPrefixes == { <<>>, <<"www.">>, <<"WWW.">>, <<"m.", "www.">> }
HostNames == { "a.com", "A.COM" }
Hosts == { p \o <<d>> : p \in HostPrefixes, d \in Origins \cup HostNames }

\* str.lower() on one piece
LowerPiece(piece) ==
    CASE piece = "WWW." -> "www."
      [] piece = "A.COM" -> "a.com"
      [] OTHER -> piece

lower(host) == [i \in DOMAIN host |-> LowerPiece(host[i])]

\* the argument of get_provider_config: a bare origin, or the URL of an
\* article on a host (DefaultProvider.extract_article passes the URL)
LookupArgs == [kind : {"domain", "url"}, host : Hosts]

\* the arguments with a canonical host
PlainArgs == { a \in LookupArgs : a.host \in { <<o>> : o \in Origins } }

\* the URLs on the hosts that are spellings of a.com
SpelledUrls ==
    { a \in LookupArgs : a.kind = "url" /\ lower(a.host)[Len(a.host)] = "a.com" }

\* _extract_domain of config.py: lower-cased netloc without a leading "www."
extract_domain(url) ==
    LET domain == lower(url.host) IN
    [kind |-> "domain",
     host |-> IF domain[1] = "www." THEN Tail(domain) ELSE domain]

\* _extract_domain of core/config.py: netloc.replace('www.', ''), every
\* occurrence and in the given letter case
extract_domain_core(url) ==
    [kind |-> "domain", host |-> SelectSeq(url.host, LAMBDA p : p # "www.")]

\* the name of the file "<key>.yaml" when the key is a bare origin
FileName(key) ==
    IF key.kind = "domain" /\ Len(key.host) = 1 /\ key.host[1] \in Origins
    THEN key.host[1] ELSE "none"

\* the key under which an implementation caches and names the file
CacheKey(impl, arg) == IF impl = "legacy" THEN extract_domain(arg) ELSE arg

\* a ruleset as a value: where it came from and whether it has
\* content.selectors
ProviderYaml(name, state) == [source |-> name, selectors |-> state = "valid"]
NoRuleset == [source |-> "none", selectors |-> FALSE]
MinimalFallback == [source |-> "fallback", selectors |-> FALSE]
EmptyDict == [source |-> "empty", selectors |-> FALSE]

\* the state of the file "<key>.yaml" in config/providers: only a bare
\* origin names a file there
FileState(files, key) ==
    IF FileName(key) \in Origins THEN files[FileName(key)] ELSE "missing"

\* _validate_provider_config: 'content' present and 'selectors' in it
validate_provider_config(config) == config.selectors

\* _load_provider_config of config.py: the parsed file if it exists, parses
\* and validates, else None
load_provider_config(state, name) ==
    IF state \in {"invalid", "valid"}
       /\ validate_provider_config(ProviderYaml(name, state))
    THEN ProviderYaml(name, state)
    ELSE NoRuleset

\* the body of "if provider_file.exists(): try: ... _load_yaml" of
\* core/config.py: the parsed file, unvalidated, else nothing
load_yaml_if_exists(state, name) ==
    IF state \in {"invalid", "valid"}
    THEN ProviderYaml(name, state)
    ELSE NoRuleset

\* whether the lookup opens the file (provider_file.exists() was true)
OpensFile(state) == state # "missing"

RulesIdle ==
    [impl |-> "core",
     files |-> [f \in ProviderFiles |-> "missing"],
     provider_cache |-> [k \in LookupArgs |-> NoRuleset],
     default_provider |-> NoRuleset,
     loads |-> [k \in LookupArgs |-> 0],
     cached_reads |-> [k \in LookupArgs |-> 0],
     default_loads |-> 0,
     lookups |-> 0,
     args |-> {},
     resolved |-> {},
     call |-> [t \in Callers |->
                 [pc |-> "idle",
                  arg |-> [kind |-> "domain", host |-> <<"a.com">>],
                  domain |-> <<>>,
                  provider_config |-> NoRuleset, ret |-> NoRuleset]]]

\* a Config object of one implementation over the files of config/providers,
\* looked up with the arguments args
RulesStart(impl, files, args) ==
    [RulesIdle EXCEPT !.impl = impl, !.files = files, !.args = args]

\* get_default_provider_config of either implementation as a function of the
\* state: the value returned, the new _default_provider, and whether the
\* default file was opened
get_default_provider_config(impl, files, default_provider) ==
    IF default_provider # NoRuleset
    THEN [ret |-> default_provider, cache |-> default_provider,
          opened |-> FALSE]
    ELSE IF impl = "legacy"
    THEN LET loaded == load_provider_config(files["default"], "default")
             value == IF loaded # NoRuleset THEN loaded ELSE EmptyDict
         IN [ret |-> value, cache |-> value,
             opened |-> OpensFile(files["default"])]
    ELSE LET loaded == load_yaml_if_exists(files["default"], "default")
         IN IF loaded # NoRuleset
            THEN [ret |-> loaded, cache |-> loaded, opened |-> TRUE]
            ELSE [ret |-> MinimalFallback, cache |-> NoRuleset,
                  opened |-> TRUE]

\* get_provider_config, first statement: "if domain in self._provider_cache:
\* return self._provider_cache[domain]"
LookupBegin(t, arg) ==
    /\ rules.call[t].pc = "idle"
    /\ rules.lookups < MaxLookups
    /\ arg \in rules.args
    /\ rules.impl = "legacy" => arg.kind = "url"
    /\ LET key == CacheKey(rules.impl, arg)
           hit == rules.provider_cache[key] # NoRuleset
       IN rules' = [rules EXCEPT
                      !.lookups = @ + 1,
                      !.call[t] = [pc |-> IF hit THEN "returned" ELSE "load",
                                   arg |-> arg,
                                   domain |-> IF rules.impl = "legacy"
                                              THEN extract_domain(arg).host
                                              ELSE extract_domain_core(arg).host,
                                   provider_config |-> NoRuleset,
                                   ret |-> IF hit THEN rules.provider_cache[key]
                                           ELSE NoRuleset]]
    /\ UNCHANGED <<pipeVars, ex, gate, split, cycle, cleanup, brk, chan, hnd>>

\* the file of the key is looked for and, when present, opened and parsed
LookupLoad(t) ==
    /\ rules.call[t].pc = "load"
    /\ LET key == CacheKey(rules.impl, rules.call[t].arg)
           state == FileState(rules.files, key)
           loaded == IF rules.impl = "legacy"
                     THEN load_provider_config(state, FileName(key))
                     ELSE load_yaml_if_exists(state, FileName(key))
       IN rules' = [rules EXCEPT
                      !.loads[key] = IF OpensFile(state) THEN @ + 1 ELSE @,
                      !.cached_reads[key] =
                          IF OpensFile(state)
                             /\ rules.provider_cache[key] # NoRuleset
                          THEN @ + 1 ELSE @,
                      !.call[t].pc = "store",
                      !.call[t].provider_config = loaded]
    /\ UNCHANGED <<pipeVars, ex, gate, split, cycle, cleanup, brk, chan, hnd>>

\* the rest of get_provider_config: cache and return the loaded ruleset, or
\* fall back to the default (cached under the key by config.py only)
LookupStore(t) ==
    /\ rules.call[t].pc = "store"
    /\ LET key == CacheKey(rules.impl, rules.call[t].arg)
           loaded == rules.call[t].provider_config
           d == get_default_provider_config(rules.impl, rules.files,
                                            rules.default_provider)
       IN IF loaded # NoRuleset
          THEN rules' = [rules EXCEPT
                           !.provider_cache[key] = loaded,
                           !.call[t].pc = "returned",
                           !.call[t].ret = loaded]
          ELSE rules' = [rules EXCEPT
                           !.default_provider = d.cache,
                           !.default_loads = IF d.opened THEN @ + 1 ELSE @,
                           !.provider_cache[key] =
                               IF rules.impl = "legacy" THEN d.ret ELSE @,
                           !.call[t].pc = "returned",
                           !.call[t].ret = d.ret]
    /\ UNCHANGED <<pipeVars, ex, gate, split, cycle, cleanup, brk, chan, hnd>>

\* the caller takes the ruleset and is free for its next lookup
LookupDone(t) ==
    /\ rules.call[t].pc = "returned"
    /\ rules' = [rules EXCEPT
                   !.call[t] = RulesIdle.call[t],
                   !.resolved = @ \cup
                      {[arg |-> rules.call[t].arg,
                        key |-> CacheKey(rules.impl, rules.call[t].arg),
                        ret |-> rules.call[t].ret]}]
    /\ UNCHANGED <<pipeVars, ex, gate, split, cycle, cleanup, brk, chan, hnd>>

NextRules ==
    \/ \E t \in Callers, arg \in LookupArgs : LookupBegin(t, arg)
    \/ \E t \in Callers : LookupLoad(t)
    \/ \E t \in Callers : LookupStore(t)
    \/ \E t \in Callers : LookupDone(t)

(***************************************************************************)
(* The polling loop of BotManager: start, _process_cycle,                  *)
(* _process_subreddit, _interruptible_sleep, and the signal handler        *)
(* calling shutdown_gracefully.                                            *)
(***************************************************************************)
NumSubreddits == 2
MaxBatch == 2
MaxCycles == 2
MaxSleep == 2

Subreddits == 1..NumSubreddits

CycleIdle ==
    [pc |-> "idle", running |-> FALSE, cycles |-> 0, subreddit |-> 0,
     posts |-> 0, submission |-> 0, processed_count |-> 0,
     successful_count |-> 0, failures |-> 0, visited |-> {},
     returned |-> [fetched |-> 0, processed |-> 0, successful |-> 0],
     total_processed |-> 0, begun_after_failure |-> 0,
     begun_after_shutdown |-> 0,
     check_interval |-> 3600, has_cycle_count |-> FALSE, cycle_count |-> 0,
     cleanups |-> 0, since_cleanup |-> 0,
     duration |-> 0, total_slept |-> 0, slept_after_shutdown |-> 0,
     cleanup_runs |-> 0]

\* config.check_interval values tried: 3600 // check_interval is 2 and 1
CheckIntervals == {1800, 3600}

\* start(): self.running = True, then the main loop.  No statement of the
\* program assigns _cycle_count, so the attribute stays absent.
\* duration is the argument of _interruptible_sleep counted in its
\* one-second intervals, capped at MaxSleep.
CycleStart(check_interval, duration) ==
    [CycleIdle EXCEPT !.pc = "while", !.running = TRUE,
                      !.check_interval = check_interval,
                      !.duration = duration]

\* _should_cleanup: hasattr(self, '_cycle_count')
\*                  and self._cycle_count % cycles_per_hour == 0
should_cleanup(c) ==
    /\ c.has_cycle_count
    /\ c.cycle_count % (3600 \div c.check_interval) = 0

\* "while self.running:" and, when true, the entry of _process_cycle
WhileRunning ==
    /\ cycle.pc = "while"
    /\ IF cycle.running
       THEN /\ cycle.cycles < MaxCycles
            /\ cycle' = [cycle EXCEPT !.pc = "subreddits", !.cycles = @ + 1,
                                      !.subreddit = 1, !.visited = {},
                                      !.failures = 0, !.total_processed = 0,
                                      !.begun_after_failure = 0]
       ELSE cycle' = [cycle EXCEPT !.pc = "stopped"]
    /\ UNCHANGED <<pipeVars, ex, gate, split, rules, cleanup, brk, chan, hnd>>

\* "for subreddit_name in self.config.subreddits:" and get_new_posts with
\* limit max_posts_per_check (an error fetching leaves no posts); after the
\* last subreddit the end of _process_cycle: "if self._should_cleanup():
\* self._periodic_cleanup()"
ProcessSubreddit ==
    /\ cycle.pc = "subreddits"
    /\ IF cycle.subreddit \in Subreddits
       THEN \E n \in 0..MaxBatch :
               cycle' = [cycle EXCEPT !.pc = "posts", !.posts = n,
                                      !.submission = 1,
                                      !.processed_count = 0,
                                      !.successful_count = 0,
                                      !.visited = @ \cup {cycle.subreddit}]
       ELSE cycle' = [cycle EXCEPT
                        !.pc = "sleep", !.subreddit = 0,
                        !.total_slept = 0, !.slept_after_shutdown = 0,
                        !.cleanups = IF should_cleanup(cycle) THEN @ + 1 ELSE @,
                        !.since_cleanup =
                            IF should_cleanup(cycle) THEN 0 ELSE @ + 1]
    /\ UNCHANGED <<pipeVars, ex, gate, split, rules, cleanup, brk, chan, hnd>>

\* "for submission in posts:" takes the next submission and calls
\* process_submission on it, or ends the batch
SubmissionBegin ==
    /\ cycle.pc = "posts"
    /\ IF cycle.submission <= cycle.posts
       THEN cycle' = [cycle EXCEPT
                        !.pc = "in_flight",
                        !.begun_after_failure =
                            IF cycle.failures > 0 THEN @ + 1 ELSE @,
                        !.begun_after_shutdown =
                            IF cycle.running THEN @ ELSE @ + 1]
       ELSE cycle' = [cycle EXCEPT
                        !.pc = "subreddits", !.subreddit = @ + 1,
                        !.posts = 0, !.submission = 0,
                        !.returned = [fetched |-> cycle.posts,
                                      processed |-> cycle.processed_count,
                                      successful |-> cycle.successful_count],
                        !.total_processed = @ + cycle.processed_count]
    /\ UNCHANGED <<pipeVars, ex, gate, split, rules, cleanup, brk, chan, hnd>>

\* the ways a call of process_submission ends
SubmissionOutcomes == {"true", "false", "raised"}

\* A faulty variant: an exception of process_submission leaves the loop.
AfterSubmission_raise_ends_batch(c, outcome) ==
    IF outcome = "raised"
    THEN [c EXCEPT !.pc = "posts", !.submission = c.posts + 1,
                   !.failures = @ + 1]
    ELSE [c EXCEPT !.pc = "posts", !.submission = @ + 1,
                   !.processed_count = @ + 1,
                   !.successful_count = IF outcome = "true" THEN @ + 1 ELSE @,
                   !.failures = IF outcome = "true" THEN @ ELSE @ + 1]

\* the body of "for submission in posts:" after the call: successful_count
\* counts True results, processed_count every submission, raised or not
AfterSubmission(c, outcome) ==
    [c EXCEPT !.pc = "posts", !.submission = @ + 1,
              !.processed_count = @ + 1,
              !.successful_count = IF outcome = "true" THEN @ + 1 ELSE @,
              !.failures = IF outcome = "true" THEN @ ELSE @ + 1]

\* process_submission returns or raises
SubmissionEnd ==
    /\ cycle.pc = "in_flight"
    /\ \E outcome \in SubmissionOutcomes :
          cycle' = AfterSubmission(cycle, outcome)
    /\ UNCHANGED <<pipeVars, ex, gate, split, rules, cleanup, brk, chan, hnd>>

\* A faulty variant: the sleep loop does not read self.running.
SleepContinues_ignores_running(c) == c.total_slept < c.duration

\* _interruptible_sleep: "while total_slept < duration and self.running"
SleepContinues(c) == c.total_slept < c.duration /\ c.running

\* the loop of _interruptible_sleep enters time.sleep(sleep_interval)
SleepInterval ==
    /\ cycle.pc = "sleep"
    /\ SleepContinues(cycle)
    /\ cycle' = [cycle EXCEPT !.pc = "time_sleep"]
    /\ UNCHANGED <<pipeVars, ex, gate, split, rules, cleanup, brk, chan, hnd>>

\* time.sleep returns (a signal handled meanwhile does not shorten it);
\* total_slept += sleep_interval
SleepWake ==
    /\ cycle.pc = "time_sleep"
    /\ cycle' = [cycle EXCEPT
                   !.pc = "sleep", !.total_slept = @ + 1,
                   !.slept_after_shutdown = IF cycle.running THEN @ ELSE @ + 1]
    /\ UNCHANGED <<pipeVars, ex, gate, split, rules, cleanup, brk, chan, hnd>>

\* _interruptible_sleep ends: the duration elapsed or running is false
SleepEnd ==
    /\ cycle.pc = "sleep"
    /\ ~SleepContinues(cycle)
    /\ cycle' = [cycle EXCEPT !.pc = "while"]
    /\ UNCHANGED <<pipeVars, ex, gate, split, rules, cleanup, brk, chan, hnd>>

\* an exception leaves the main loop: update_activity at the top of an
\* iteration, or the code of _process_cycle after the subreddit loop;
\* "except Exception: ... raise"
MainLoopRaises ==
    /\ \/ cycle.pc = "while" /\ cycle.running
       \/ cycle.pc = "subreddits" /\ cycle.subreddit \notin Subreddits
    /\ cycle' = [cycle EXCEPT !.pc = "raised"]
    /\ UNCHANGED <<pipeVars, ex, gate, split, rules, cleanup, brk, chan, hnd>>

\* "finally: self._cleanup()", after the loop ended or raised; each cleanup
\* task runs in its own try/except
Cleanup ==
    /\ cycle.pc \in {"stopped", "raised"}
    /\ cycle' = [cycle EXCEPT
                   !.pc = IF cycle.pc = "raised" THEN "exited_raising"
                          ELSE "exited",
                   !.cleanup_runs = @ + 1]
    /\ UNCHANGED <<pipeVars, ex, gate, split, rules, cleanup, brk, chan, hnd>>

\* SIGINT or SIGTERM: the handler runs shutdown_gracefully between any two
\* steps of the main thread
shutdown_gracefully ==
    /\ cycle.pc \notin {"idle", "stopped", "raised", "exited", "exited_raising"}
    /\ cycle.running
    /\ cycle' = [cycle EXCEPT !.running = FALSE]
    /\ UNCHANGED <<pipeVars, ex, gate, split, rules, cleanup, brk, chan, hnd>>

NextCycle ==
    \/ WhileRunning
    \/ ProcessSubreddit
    \/ SubmissionBegin
    \/ SubmissionEnd
    \/ SleepInterval
    \/ SleepWake
    \/ SleepEnd
    \/ MainLoopRaises
    \/ Cleanup
    \/ shutdown_gracefully


(***************************************************************************)
(* final_content_cleanup (extractors/formatters.py) and                    *)
(* DefaultProvider._final_content_cleanup: whitespace normalisation and    *)
(* truncation to content.max_length.  cleanup_patterns is empty.           *)
(***************************************************************************)
CleanupMaxLength == 10

\* the content.max_length values of the rulesets tried
CleanupMaxLengths == {CleanupMaxLength, CleanupMaxLength + 1}

\* the last index of the whitespace run that starts at index i (1-based)
RECURSIVE RunEnd(_, _)
RunEnd(s, i) ==
    IF i < Len(s) /\ IsSpace(s[i + 1]) THEN RunEnd(s, i + 1) ELSE i

\* re.sub(r'\n\s*\n\s*\n', '\n\n', content) from index i on: a whitespace
\* run with three or more newlines is replaced, from its first newline to
\* its last, by two newlines
RECURSIVE collapse_blank_lines(_, _)
collapse_blank_lines(s, i) ==
    IF i > Len(s) THEN <<>>
    ELSE LET newlines == { k \in i..RunEnd(s, i) : s[k] = "\n" } IN
         IF s[i] = "\n" /\ Cardinality(newlines) >= 3
         THEN <<"\n", "\n">> \o collapse_blank_lines(s, Max(newlines) + 1)
         ELSE <<s[i]>> \o collapse_blank_lines(s, i + 1)

\* re.sub(r'[ \t]+', ' ', content)
collapse_spaces(s) ==
    LET keep == { k \in 1..Len(s) : ~(s[k] = " " /\ k > 1 /\ s[k - 1] = " ") }
        F[k \in 0..Len(s)] ==
            IF k = 0 THEN <<>>
            ELSE IF k \in keep THEN Append(F[k - 1], s[k]) ELSE F[k - 1]
    IN F[Len(s)]

RECURSIVE rstrip(_)
rstrip(s) ==
    IF s # <<>> /\ IsSpace(s[Len(s)])
    THEN rstrip(SubSeq(s, 1, Len(s) - 1)) ELSE s

\* str.strip()
strip(s) == rstrip(lstrip(s))

\* the text before truncation
cleaned_content(content) ==
    strip(collapse_spaces(collapse_blank_lines(content, 1)))

\* "if len(content) > max_length: ..."; max_length * 0.8 compared in integers
truncate(content, max_length) ==
    IF Len(content) > max_length
    THEN LET head == PyPrefix(content, max_length)
             last_sentence == Max({rfind(head, <<".">>),
                                   rfind(head, <<"\n", "\n">>)}) IN
         IF last_sentence * 10 > max_length * 8
         THEN PyPrefix(head, last_sentence + 1) ELSE head
    ELSE content

final_content_cleanup(content, max_length) ==
    IF content = <<>> THEN <<>>
    ELSE truncate(cleaned_content(content), max_length)

CleanupIdle ==
    [pc |-> "idle", content |-> <<>>, max_length |-> CleanupMaxLength,
     ret |-> <<>>]

CleanupStart(content, max_length) ==
    [CleanupIdle EXCEPT !.pc = "called", !.content = content,
                        !.max_length = max_length]

\* one call of final_content_cleanup
FinalContentCleanup ==
    /\ cleanup.pc = "called"
    /\ cleanup' = [cleanup EXCEPT
                     !.pc = "returned",
                     !.ret = final_content_cleanup(cleanup.content,
                                                   cleanup.max_length)]
    /\ UNCHANGED <<pipeVars, ex, gate, split, rules, cycle, brk, chan, hnd>>

NextCleanup == FinalContentCleanup

(***************************************************************************)
(* One call of CommentManager._find_good_break_point on a candidate chunk. *)
(***************************************************************************)
BrkPadShort == 6
BrkPadLong == 10
BrkTailLen == 4

\* the candidates: a run of letters followed by any tail
BrkTexts ==
    { [k \in 1..n |-> "a"] \o t :
        n \in {BrkPadShort, BrkPadLong},
        t \in UNION { TextsOfLength(m) : m \in 0..BrkTailLen } }

BrkIdle == [pc |-> "idle", text |-> <<>>, ret |-> 0]

BrkStart(text) == [BrkIdle EXCEPT !.pc = "called", !.text = text]

FindGoodBreakPoint ==
    /\ brk.pc = "called"
    /\ brk' = [brk EXCEPT !.pc = "returned",
                          !.ret = find_good_break_point(brk.text)]
    /\ UNCHANGED <<pipeVars, ex, gate, split, rules, cycle, cleanup, chan, hnd>>

NextBreak == FindGoodBreakPoint

(***************************************************************************)
(* One call of CommentManager.post_comments, request by request.  log is   *)
(* the sequence of replies the channel accepted: the chunk and its parent. *)
(***************************************************************************)
MaxChunks == 5
MaxCalls == 2

\* comments[k] is chunk k - 1 of the formatted article
ChunkLists == { [k \in 1..n |-> k - 1] : n \in 0..MaxChunks }

ChanIdle ==
    [pc |-> "idle", comments |-> <<>>, already |-> FALSE, i |-> 0,
     log |-> <<>>, pinned |-> FALSE, root_failed |-> FALSE, ret |-> "none",
     roots |-> 0, calls |-> 0, scan_raised |-> FALSE]

\* a call of post_comments on a submission that carries a root comment of
\* the bot (already) or none; roots counts the bot's root comments on it
ChanStart(comments, already) ==
    [ChanIdle EXCEPT !.pc = "check", !.comments = comments,
                     !.already = already,
                     !.roots = IF already THEN 1 ELSE 0, !.calls = 1]

\* A faulty variant: no scan for an earlier comment of the bot.
BotCommentFound_never(c) == FALSE

\* "for comment in submission.comments: if comment.author and
\* comment.author.name == self.config.reddit_username"
BotCommentFound(c) == c.already

\* replace_more and the scan of the submission's comments for one of the
\* bot's own; "if not comments: return False"
PostCommentsCheck ==
    /\ chan.pc = "check"
    /\ \E ok \in BOOLEAN :
         chan' = IF ~ok
                 THEN [chan EXCEPT !.pc = "returned", !.ret = "False",
                                   !.scan_raised = TRUE]
                 ELSE IF BotCommentFound(chan)
                 THEN [chan EXCEPT !.pc = "returned", !.ret = "True"]
                 ELSE IF chan.comments = <<>>
                 THEN [chan EXCEPT !.pc = "returned", !.ret = "False"]
                 ELSE [chan EXCEPT !.pc = "root"]
    /\ UNCHANGED <<pipeVars, ex, gate, split, rules, cycle, cleanup, brk, hnd>>

\* A faulty variant: a failed root reply is logged like a failed continuation
\* and the call goes on to the continuations.
AfterRootReply_failure_skipped(c, ok) ==
    IF ok
    THEN [c EXCEPT !.pc = "pin", !.roots = @ + 1,
                   !.log = Append(@, [chunk |-> c.comments[1],
                                      parent |-> "submission"])]
    ELSE [c EXCEPT !.pc = "pin", !.root_failed = TRUE]

\* main_comment = submission.reply(comments[0]); an exception reaches the
\* outer handler, which returns False
AfterRootReply(c, ok) ==
    IF ok
    THEN [c EXCEPT !.pc = "pin", !.roots = @ + 1,
                   !.log = Append(@, [chunk |-> c.comments[1],
                                      parent |-> "submission"])]
    ELSE [c EXCEPT !.pc = "returned", !.ret = "False", !.root_failed = TRUE]

ReplyRoot ==
    /\ chan.pc = "root"
    /\ \E ok \in BOOLEAN : chan' = AfterRootReply(chan, ok)
    /\ UNCHANGED <<pipeVars, ex, gate, split, rules, cycle, cleanup, brk, hnd>>

\* main_comment.mod.distinguish(how='yes', sticky=True) in its own try/except
Distinguish ==
    /\ chan.pc = "pin"
    /\ \E ok \in BOOLEAN :
         chan' = [chan EXCEPT !.pc = "continuations", !.pinned = ok, !.i = 1]
    /\ UNCHANGED <<pipeVars, ex, gate, split, rules, cycle, cleanup, brk, hnd>>

\* A faulty variant: the continuation loop has no try/except of its own, so
\* a failed reply reaches the outer handler.
AfterContinuation_failure_returns_false(c, ok) ==
    IF ok
    THEN [c EXCEPT !.i = @ + 1,
                   !.log = Append(@, [chunk |-> c.comments[c.i + 1],
                                      parent |-> "root"])]
    ELSE [c EXCEPT !.pc = "returned", !.ret = "False"]

\* reply = main_comment.reply(continuation_content) in its own try/except:
\* "Continue with remaining parts even if one fails"
AfterContinuation(c, ok) ==
    [c EXCEPT !.i = @ + 1,
              !.log = IF ok
                      THEN Append(@, [chunk |-> c.comments[c.i + 1],
                                      parent |-> "root"])
                      ELSE @]

\* for i, continuation_content in enumerate(comments[1:], 1): one iteration
ReplyContinuation ==
    /\ chan.pc = "continuations"
    /\ chan.i < Len(chan.comments)
    /\ \E ok \in BOOLEAN : chan' = AfterContinuation(chan, ok)
    /\ UNCHANGED <<pipeVars, ex, gate, split, rules, cycle, cleanup, brk, hnd>>

\* the loop is over: return True
PostCommentsReturn ==
    /\ chan.pc = "continuations"
    /\ chan.i >= Len(chan.comments)
    /\ chan' = [chan EXCEPT !.pc = "returned", !.ret = "True"]
    /\ UNCHANGED <<pipeVars, ex, gate, split, rules, cycle, cleanup, brk, hnd>>

\* the next call of post_comments on the same submission, after the
\* previous one returned: the submission is read anew
PostCommentsAgain ==
    /\ chan.pc = "returned"
    /\ chan.calls < MaxCalls
    /\ \E comments \in ChunkLists :
         chan' = [ChanIdle EXCEPT !.pc = "check", !.comments = comments,
                                  !.already = chan.roots > 0,
                                  !.roots = chan.roots,
                                  !.calls = chan.calls + 1]
    /\ UNCHANGED <<pipeVars, ex, gate, split, rules, cycle, cleanup, brk, hnd>>

NextChan ==
    \/ PostCommentsAgain
    \/ PostCommentsCheck
    \/ ReplyRoot
    \/ Distinguish
    \/ ReplyContinuation
    \/ PostCommentsReturn

(***************************************************************************)
(* One job of an RQ worker (tasks/queue_handlers.py): the handler's try    *)
(* body as the sequence of its collaborator calls, its except clauses,     *)
(* and what reaches the queue: a status dictionary or an exception.        *)
(***************************************************************************)
Handlers ==
    {"process_discovered_post", "process_article", "process_youtube_video",
     "process_twitter_post", "retry_failed_job"}

ContentTypes == {"article", "youtube", "twitter", "other"}

Statuses ==
    {"skipped", "routed", "success", "partial_success", "failed", "error"}

\* a collaborator call of a try body: whether it can raise, the statuses the
\* handler returns at once on its falsy results, the record written before
\* such a return, and whether process_article's inner try encloses it
Call(name, can_raise, returns, return_kwargs, inner) ==
    [name |-> name, can_raise |-> can_raise, returns |-> returns,
     return_kwargs |-> return_kwargs, kwargs |-> {}, inner |-> inner]

\* database.record_processed_post(**kwargs): sqlite3.Error is caught inside,
\* an unknown keyword raises TypeError
RecordCall(kwargs, inner) ==
    [name |-> "record_processed_post", can_raise |-> FALSE, returns |-> {},
     return_kwargs |-> {}, kwargs |-> kwargs, inner |-> inner]

\* the try body of handler h for a job of content type (or job_type) kind
TryCalls(h, kind) ==
    IF h = "process_discovered_post"
    THEN << Call("is_post_processed", FALSE, {"skipped"}, {}, FALSE),
            Call("is_news_article_url", TRUE, {}, {}, FALSE) >>
         \o (IF kind = "other"
             THEN << RecordCall(BaseKwargs, FALSE) >>
             ELSE << Call("enqueue", TRUE, {}, {}, FALSE) >>)
    ELSE IF h = "process_article"
    THEN << Call("extract_with_retry", TRUE, {"failed"}, BaseKwargs, FALSE),
            Call("reddit.submission", TRUE, {}, {}, TRUE),
            Call("format_comment", TRUE, {}, {}, TRUE),
            Call("post_comments", FALSE, {}, {}, TRUE),
            RecordCall(BaseKwargs \cup {"article_data", "comment_content"},
                       TRUE) >>
    ELSE IF h = "process_youtube_video"
    THEN << Call("gemini_client", FALSE, {"failed"}, {}, FALSE),
            Call("summarize_youtube_video", TRUE, {}, {}, FALSE),
            Call("reddit.submission", TRUE, {}, {}, FALSE),
            Call("youtube_summary_template.format", TRUE, {}, {}, FALSE),
            Call("post_comment", FALSE, {}, {}, FALSE),
            RecordCall(BaseKwargs \cup {"comment_content"}, FALSE) >>
    ELSE IF h = "process_twitter_post"
    THEN << Call("x_extractor", FALSE, {"failed"}, {}, FALSE),
            Call("extract_tweet_content", TRUE, {"failed"}, BaseKwargs, FALSE),
            Call("reddit.submission", TRUE, {}, {}, FALSE),
            Call("x_twitter_comment_template.format", TRUE, {}, {}, FALSE),
            Call("post_comment", FALSE, {}, {}, FALSE),
            RecordCall(BaseKwargs \cup {"comment_content"}, FALSE) >>
    ELSE << Call("original_job_data", TRUE,
                 IF kind = "other" THEN {"error"} ELSE {}, {}, FALSE) >>

\* the status returned when the try body runs to its end
FinalStatus(h, kind, comment_success) ==
    IF h = "process_discovered_post"
    THEN IF kind = "other" THEN "skipped" ELSE "routed"
    ELSE IF comment_success THEN "success" ELSE "partial_success"

\* the handler retry_failed_job calls for a job_type
RetryTarget(kind) ==
    IF kind = "article" THEN "process_article"
    ELSE IF kind = "youtube" THEN "process_youtube_video"
    ELSE "process_twitter_post"

\* process_article, "except Exception" of the inner try: the keywords of the
\* record written before {"status": "failed"} is returned
InnerExceptKwargs == BaseKwargs \cup {"article_data"}

\* A faulty variant: the failure record of the outer except clause is
\* written with the keywords of the success record.
ExceptKwargs_with_comment_content(h) ==
    IF h \in {"process_youtube_video", "process_twitter_post"}
    THEN BaseKwargs \cup {"comment_content"}
    ELSE {}

\* the outermost "except Exception": the keywords of the failure record the
\* clause writes before it returns {"status": "error"}, or {} when it writes
\* none
ExceptKwargs(h) ==
    IF h \in {"process_youtube_video", "process_twitter_post"}
    THEN BaseKwargs
    ELSE {}

HndIdle ==
    [pc |-> "idle", job |-> "none", handler |-> "none", kind |-> "other",
     k |-> 0, comment_success |-> FALSE, raised |-> 0, writes |-> 0,
     ret |-> "none"]

\* the worker calls the handler of a job
HndStart(h, kind) ==
    [HndIdle EXCEPT !.pc = "try", !.job = h, !.handler = h, !.kind = kind,
                    !.k = 1]

\* where an exception raised at call c of the try body lands
Landing(c) == IF c.inner THEN "inner_except" ELSE "except"

\* the handler's result leaves the handler; under retry_failed_job it is
\* returned unchanged by "return process_...(...)"
Returned(h, status) == [h EXCEPT !.pc = "returned", !.ret = status]

\* an exception leaves handler h.handler: retry_failed_job's own except
\* clause catches it when the handler was called from there; otherwise it
\* reaches the queue
Escapes(h) ==
    IF h.job = "retry_failed_job" /\ h.handler # "retry_failed_job"
    THEN [h EXCEPT !.pc = "except", !.handler = "retry_failed_job",
                   !.raised = @ + 1]
    ELSE [h EXCEPT !.pc = "propagated", !.raised = @ + 1]

\* one collaborator call of the try body
HandlerCall ==
    /\ hnd.pc = "try"
    /\ LET calls == TryCalls(hnd.handler, hnd.kind)
           c == calls[hnd.k]
           last == hnd.k = Len(calls)
           done(h) == IF last
                      THEN Returned(h, FinalStatus(h.handler, h.kind,
                                                   h.comment_success))
                      ELSE [h EXCEPT !.k = @ + 1]
           raise == [hnd EXCEPT !.pc = Landing(c), !.raised = @ + 1] IN
       IF c.name = "record_processed_post"
       THEN hnd' = IF CallRaisesTypeError(c.kwargs) THEN raise
                   ELSE done([hnd EXCEPT !.writes = @ + 1])
       ELSE IF c.name \in {"post_comments", "post_comment"}
       THEN \E ok \in BOOLEAN : hnd' = done([hnd EXCEPT !.comment_success = ok])
       ELSE IF hnd.handler = "retry_failed_job"
       THEN \E o \in {"ok", "raises"} :
               hnd' = IF o = "raises" THEN raise
                      ELSE IF c.returns # {} THEN Returned(hnd, "error")
                      ELSE [hnd EXCEPT !.handler = RetryTarget(hnd.kind),
                                       !.k = 1]
       ELSE \E o \in {"ok"} \cup (IF c.can_raise THEN {"raises"} ELSE {})
                        \cup c.returns :
               hnd' = IF o = "ok" THEN done(hnd)
                      ELSE IF o = "raises" THEN raise
                      ELSE IF c.return_kwargs = {} THEN Returned(hnd, o)
                      ELSE IF CallRaisesTypeError(c.return_kwargs) THEN raise
                      ELSE Returned([hnd EXCEPT !.writes = @ + 1], o)
    /\ UNCHANGED <<pipeVars, ex, gate, split, rules, cycle, cleanup, brk, chan>>

\* process_article, the except clause of the inner try: "Still record the
\* processing attempt", then return {"status": "failed"}; an exception of
\* the clause is caught by the outer one
HandlerInnerExcept ==
    /\ hnd.pc = "inner_except"
    /\ hnd' = IF CallRaisesTypeError(InnerExceptKwargs)
              THEN [hnd EXCEPT !.pc = "except", !.raised = @ + 1]
              ELSE Returned([hnd EXCEPT !.writes = @ + 1], "failed")
    /\ UNCHANGED <<pipeVars, ex, gate, split, rules, cycle, cleanup, brk, chan>>

\* the outermost except clause: log, write the failure record if the clause
\* has one, return {"status": "error"}; nothing encloses the clause
HandlerExcept ==
    /\ hnd.pc = "except"
    /\ LET kwargs == ExceptKwargs(hnd.handler) IN
       hnd' = IF kwargs = {} THEN Returned(hnd, "error")
              ELSE IF CallRaisesTypeError(kwargs) THEN Escapes(hnd)
              ELSE Returned([hnd EXCEPT !.writes = @ + 1], "error")
    /\ UNCHANGED <<pipeVars, ex, gate, split, rules, cycle, cleanup, brk, chan>>

NextHandler ==
    \/ HandlerCall
    \/ HandlerInnerExcept
    \/ HandlerExcept

(***************************************************************************)
(* Specifications.                                                         *)
(***************************************************************************)
Init ==
    /\ records = <<>>
    /\ dbUp = TRUE
    /\ botCommented = [i \in Items |-> FALSE]
    /\ jobs = [q \in Queues |-> [i \in Items |-> 0]]
    /\ url_kind \in [Items -> UrlKinds]
    /\ botImpl \in BotImpls
    /\ queue_available \in BOOLEAN
    /\ botImpl = "LegacyBotManager" => ~queue_available
    /\ run = [p \in Procs |-> IdleRun]
    /\ postCalls = [i \in Items |-> 0]
    /\ deliveryFailed = [i \in Items |-> FALSE]
    /\ ex = ExIdle
    /\ gate = GateIdle
    /\ split = SplitIdle
    /\ rules = RulesIdle
    /\ cycle = CycleIdle
    /\ cleanup = CleanupIdle
    /\ brk = BrkIdle
    /\ chan = ChanIdle
    /\ hnd = HndIdle

Next ==
    \/ \E i \in Items : BotBegin(i)
    \/ BotValidate
    \/ BotEnqueue
    \/ BotDirect
    \/ BotPost
    \/ BotRecord
    \/ \E w \in Workers, i \in Items : DiscoverBegin(w, i)
    \/ \E w \in Workers : DiscoverRoute(w)
    \/ \E w \in Workers, i \in Items, q \in {"articles", "retry"} :
          ArticleBegin(w, i, q)
    \/ \E w \in Workers : ArticleExtract(w)
    \/ \E w \in Workers : ArticlePost(w)
    \/ \E w \in Workers : ArticleRecord(w)
    \/ \E i \in Items : enqueue_post(i)
    \/ \E i \in Items : enqueue_retry(i)

Spec == Init /\ [][Next]_vars

\* sqlite3 starts or stops raising sqlite3.Error (locked or unreadable file)
SqliteFault ==
    /\ dbUp' = ~dbUp
    /\ UNCHANGED <<records, botCommented, jobs, url_kind, botImpl,
                   queue_available, run, postCalls, deliveryFailed, ex, auxVars>>

NextStorage == Next \/ SqliteFault

\* the delivery path with a store that can fail at any moment
SpecStorage == Init /\ [][NextStorage]_vars

InitExtract ==
    /\ records = <<>>
    /\ dbUp = TRUE
    /\ botCommented = [i \in Items |-> FALSE]
    /\ jobs = [q \in Queues |-> [i \in Items |-> 0]]
    /\ url_kind = [i \in Items |-> "article"]
    /\ botImpl = "BotManager"
    /\ queue_available = FALSE
    /\ run = [p \in Procs |-> IdleRun]
    /\ postCalls = [i \in Items |-> 0]
    /\ deliveryFailed = [i \in Items |-> FALSE]
    /\ ex \in { ExStart(rs) : rs \in Rulesets }
    /\ gate = GateIdle
    /\ split = SplitIdle
    /\ rules = RulesIdle
    /\ cycle = CycleIdle
    /\ cleanup = CleanupIdle
    /\ brk = BrkIdle
    /\ chan = ChanIdle
    /\ hnd = HndIdle

SpecExtract == InitExtract /\ [][NextExtract]_vars

\* the delivery path at rest, for the specifications of single calls
PipelineIdle ==
    /\ records = <<>>
    /\ dbUp = TRUE
    /\ botCommented = [i \in Items |-> FALSE]
    /\ jobs = [q \in Queues |-> [i \in Items |-> 0]]
    /\ url_kind = [i \in Items |-> "article"]
    /\ botImpl = "BotManager"
    /\ queue_available = FALSE
    /\ run = [p \in Procs |-> IdleRun]
    /\ postCalls = [i \in Items |-> 0]
    /\ deliveryFailed = [i \in Items |-> FALSE]

SpecExtractFair == SpecExtract /\ WF_vars(NextExtract)

InitGate ==
    /\ PipelineIdle
    /\ ex = ExIdle
    /\ gate \in { GateStart(a, rs) : a \in GateCandidates, rs \in GateRulesets }
    /\ split = SplitIdle
    /\ rules = RulesIdle
    /\ cycle = CycleIdle
    /\ cleanup = CleanupIdle
    /\ brk = BrkIdle
    /\ chan = ChanIdle
    /\ hnd = HndIdle

SpecGate == InitGate /\ [][NextGate]_vars

InitSplit ==
    /\ PipelineIdle
    /\ ex = ExIdle
    /\ gate = GateIdle
    /\ split \in { SplitStart(t, m, c) :
                     t \in Texts, m \in Overheads, c \in Overheads }
    /\ rules = RulesIdle
    /\ cycle = CycleIdle
    /\ cleanup = CleanupIdle
    /\ brk = BrkIdle
    /\ chan = ChanIdle
    /\ hnd = HndIdle

SpecSplit == InitSplit /\ [][NextSplit]_vars

\* the same call on the shorter texts, running on: no step of it waits for
\* anything
InitSplitFair ==
    /\ PipelineIdle
    /\ ex = ExIdle
    /\ gate = GateIdle
    /\ split \in { SplitStart(t, m, c) :
                     t \in ShortTexts, m \in Overheads, c \in Overheads }
    /\ rules = RulesIdle
    /\ cycle = CycleIdle
    /\ cleanup = CleanupIdle
    /\ brk = BrkIdle
    /\ chan = ChanIdle
    /\ hnd = HndIdle

SpecSplitFair == InitSplitFair /\ [][NextSplit]_vars /\ WF_vars(NextSplit)

\* format_comment with templates as long as max_comment_length or longer
InitSplitDegenerate ==
    /\ PipelineIdle
    /\ ex = ExIdle
    /\ gate = GateIdle
    /\ split \in { SplitStart(t, m, c) :
                     t \in ShortTexts, m \in DegenerateOverheads,
                     c \in DegenerateOverheads }
    /\ rules = RulesIdle
    /\ cycle = CycleIdle
    /\ cleanup = CleanupIdle
    /\ brk = BrkIdle
    /\ chan = ChanIdle
    /\ hnd = HndIdle

SpecSplitDegenerate ==
    InitSplitDegenerate /\ [][NextSplit]_vars /\ WF_vars(NextSplit)

InitRules ==
    /\ PipelineIdle
    /\ ex = ExIdle
    /\ gate = GateIdle
    /\ split = SplitIdle
    /\ rules \in { RulesStart(impl, files, PlainArgs) :
                     impl \in ConfigImpls,
                     files \in [ProviderFiles -> FileStates] }
    /\ cycle = CycleIdle
    /\ cleanup = CleanupIdle
    /\ brk = BrkIdle
    /\ chan = ChanIdle
    /\ hnd = HndIdle

SpecRules == InitRules /\ [][NextRules]_vars

\* the same Config object looked up with URLs whose hosts are spellings of
\* one origin, over files that are present and valid or missing
InitOrigin ==
    /\ PipelineIdle
    /\ ex = ExIdle
    /\ gate = GateIdle
    /\ split = SplitIdle
    /\ rules \in { RulesStart(impl, files, SpelledUrls) :
                     impl \in ConfigImpls,
                     files \in [ProviderFiles -> {"missing", "valid"}] }
    /\ cycle = CycleIdle
    /\ cleanup = CleanupIdle
    /\ brk = BrkIdle
    /\ chan = ChanIdle
    /\ hnd = HndIdle

SpecOrigin == InitOrigin /\ [][NextRules]_vars

InitCycle ==
    /\ PipelineIdle
    /\ ex = ExIdle
    /\ gate = GateIdle
    /\ split = SplitIdle
    /\ rules = RulesIdle
    /\ cycle \in { CycleStart(ci, d) : ci \in CheckIntervals, d \in 0..MaxSleep }
    /\ cleanup = CleanupIdle
    /\ brk = BrkIdle
    /\ chan = ChanIdle
    /\ hnd = HndIdle

SpecCycle == InitCycle /\ [][NextCycle]_vars

\* the main thread keeps running: every call it waits for returns
MainThread ==
    \/ WhileRunning
    \/ ProcessSubreddit
    \/ SubmissionBegin
    \/ SubmissionEnd
    \/ SleepInterval
    \/ SleepWake
    \/ SleepEnd
    \/ Cleanup

SpecCycleFair == SpecCycle /\ WF_vars(MainThread)

InitCleanup ==
    /\ PipelineIdle
    /\ ex = ExIdle
    /\ gate = GateIdle
    /\ split = SplitIdle
    /\ rules = RulesIdle
    /\ cycle = CycleIdle
    /\ cleanup \in { CleanupStart(t, n) : t \in Texts, n \in CleanupMaxLengths }
    /\ brk = BrkIdle
    /\ chan = ChanIdle
    /\ hnd = HndIdle

SpecCleanup == InitCleanup /\ [][NextCleanup]_vars

InitBreak ==
    /\ PipelineIdle
    /\ ex = ExIdle
    /\ gate = GateIdle
    /\ split = SplitIdle
    /\ rules = RulesIdle
    /\ cycle = CycleIdle
    /\ cleanup = CleanupIdle
    /\ brk \in { BrkStart(t) : t \in BrkTexts }
    /\ chan = ChanIdle
    /\ hnd = HndIdle

SpecBreak == InitBreak /\ [][NextBreak]_vars

InitChan ==
    /\ PipelineIdle
    /\ ex = ExIdle
    /\ gate = GateIdle
    /\ split = SplitIdle
    /\ rules = RulesIdle
    /\ cycle = CycleIdle
    /\ cleanup = CleanupIdle
    /\ brk = BrkIdle
    /\ chan \in { ChanStart(c, a) : c \in ChunkLists, a \in BOOLEAN }
    /\ hnd = HndIdle

SpecChan == InitChan /\ [][NextChan]_vars

InitHandler ==
    /\ PipelineIdle
    /\ ex = ExIdle
    /\ gate = GateIdle
    /\ split = SplitIdle
    /\ rules = RulesIdle
    /\ cycle = CycleIdle
    /\ cleanup = CleanupIdle
    /\ brk = BrkIdle
    /\ chan = ChanIdle
    /\ hnd \in { HndStart(h, kind) : h \in Handlers, kind \in ContentTypes }

SpecHandler == InitHandler /\ [][NextHandler]_vars

(***************************************************************************)
(* Properties of the delivery path (Spec).                                 *)
(***************************************************************************)
\* a handler invocation that has returned
Finished(p) == run[p].ep # "none" /\ run[p].pc = "done"

\* the invocation passed the item on to a queue instead of processing it
HandedOff(p) ==
    \/ run[p].ret = "routed"
    \/ /\ run[p].ep \in BotImpls
       /\ run[p].ret = "True"
       /\ ~run[p].fetched
       /\ ~run[p].hadRecord

\* C1: under any interleaving of the bot, the workers and the queued jobs,
\* post_comments is invoked at most once for an item id.
C1_AtMostOneDelivery == \A i \in Items : postCalls[i] <= 1

\* C2: when an invocation that posted for an item has returned and, with no
\* other invocation in progress, the same process runs the delivery path for
\* that item again, the second run is a no-op: it returns success (True or
\* skipped) at once, and neither the table nor the count of post_comments
\* invocations changes.
C2_SecondRunIsNoOp ==
    [][\A p \in Procs :
          ( /\ Finished(p)
            /\ run[p].posted
            /\ \A q \in Procs : Free(q)
            /\ run'[p] # run[p]
            /\ run'[p].item = run[p].item )
          => /\ run'[p].pc = "done"
             /\ run'[p].ret \in {"True", "skipped"}
             /\ records' = records
             /\ postCalls' = postCalls]_vars

\* C3: once an item id has a row, no write changes the row's fields.
C3_RecordNeverOverwritten ==
    [][\A i \in Items :
          (i \in DOMAIN records /\ i \in DOMAIN records')
          => records'[i] = records[i]]_vars

\* C4: an invocation of any entry point that starts while the item id has a
\* row has returned success or skipped without a fetch, a post_comments call
\* or a record write.
C4_CheckPrecedesSideEffects ==
    \A p \in Procs :
       (run[p].ep # "none" /\ run[p].hadRecord)
       => /\ run[p].pc = "done"
          /\ run[p].ret \in {"True", "skipped"}
          /\ ~run[p].fetched
          /\ ~run[p].posted
          /\ run[p].writes = 0

\* C5: when an invocation leaves its recording step, the item's row carries
\* what post_comments returned: success = true with a null error_message after
\* True, success = false with a non-empty error_message after False.
C5_RecordCarriesOutcome ==
    [][\A p \in Procs :
          (run[p].pc = "record" /\ run'[p].pc = "done")
          => LET i == run[p].item IN
             /\ i \in DOMAIN records'
             /\ records'[i].success = run[p].comment_success
             /\ run[p].comment_success => records'[i].error_message = Null
             /\ ~run[p].comment_success
                   => records'[i].error_message \notin {Null, ""}]_vars

\* C6: every invocation that started on an item without a row and has returned
\* without handing the item to a queue wrote exactly one row.
C6_ExactlyOneRecordPerRun ==
    \A p \in Procs :
       (Finished(p) /\ ~run[p].hadRecord /\ ~HandedOff(p))
       => run[p].writes = 1

\* C7: after post_comments has returned False for an item id, post_comments is
\* not invoked for that id again.
C7_NoRetryAfterDeliveryFailure ==
    [][\A i \in Items :
          deliveryFailed[i] => postCalls'[i] = postCalls[i]]_vars

C9_FirstPassingStrategy ==
    LET n == Len(ex.offered) IN
    /\ n <= Len(ex.ruleset.method_priority)
    /\ \A k \in 1..n : ex.offered[k].method = ex.ruleset.method_priority[k]
    /\ \A k \in 1..(n - 1) : ~ex.offered[k].gate
    /\ (ex.pc \in {"returned", "done"} /\ ~IsNone(ex.result))
          => /\ n >= 1
             /\ ex.offered[n].gate
             /\ ex.result = TagArticle(ex.offered[n].article,
                                       ex.ruleset.method_priority[n])
    /\ (ex.pc = "returned" /\ IsNone(ex.result))
          => /\ n = Len(ex.ruleset.method_priority)
             /\ \A k \in 1..n : ~ex.offered[k].gate

\* strategies [A, B]: A's candidate failed the gate, B's passed and is returned
C9_Witness ==
    /\ ex.pc = "returned"
    /\ Len(ex.offered) = 2
    /\ ex.offered[1].kind = "article"
    /\ ~ex.offered[1].gate
    /\ ex.offered[2].gate
    /\ ex.offered[1].method # ex.offered[2].method
    /\ ex.result = TagArticle(ex.offered[2].article, ex.offered[2].method)

\* C10: a non-None article returned by extract_article or extract_with_retry has
\* len(content) >= the ruleset's min_length and len(title) >= 10.
C10_ReturnedArticlePassesGate ==
    \A a \in {ex.result, ex.retry_result} :
       ~IsNone(a) => /\ a.content_len >= RulesetMinLength(ex.ruleset)
                     /\ a.title_len >= MinTitleLength

\* extract_with_retry returned, on a later attempt, an article exactly at the
\* ruleset's own min_length and at the title minimum
C10_Witness ==
    /\ ex.pc = "done"
    /\ ex.attempt >= 1
    /\ ~IsNone(ex.retry_result)
    /\ ex.ruleset.min_length # NoMinLength
    /\ ex.retry_result.content_len = RulesetMinLength(ex.ruleset)
    /\ ex.retry_result.title_len = MinTitleLength

(***************************************************************************)
(* Properties of the quality gate (SpecGate).                              *)
(***************************************************************************)
GateCheckNames ==
    <<"min_length", "title", "reject_patterns", "duplicate_lines",
      "word_diversity">>
GateCheckLogs ==
    <<LogTooShort, LogMissingTitle, LogRejectPattern, LogDuplicateLines,
      LogWordDiversity>>

\* the five checks as the specification states them, for the call in `gate`
GateCheckVerdicts ==
    LET a == gate.article
        rs == gate.ruleset IN
    << a.content_len >= RulesetMinLength(rs),
       a.title_len > 0 /\ a.title_len >= 10,
       ~a.reject_match,
       ~(a.lines > 5 /\ a.unique_lines * rs.ratio_den < a.lines * rs.ratio_num),
       ~(a.words > 50
         /\ a.unique_words * rs.ratio_den * 10 < a.words * rs.ratio_num * 7) >>

\* C11: is_valid_article accepts exactly when all five checks hold; it
\* evaluates them in the order length, title, reject patterns, duplicate
\* lines, word diversity, stops at the first that fails and logs that check's
\* reason.  A body of 50 with min_length 200 is rejected as too short; a body
\* of 250 with a 12-character title (and nothing else wrong) is accepted.
C11_GateAcceptsIffAllChecks ==
    gate.pc = "returned" =>
       LET v == GateCheckVerdicts
           failing == { k \in 1..5 : ~v[k] } IN
       /\ gate.ret = (failing = {})
       /\ failing = {} => gate.checks = GateCheckNames /\ gate.log = ""
       /\ failing # {} =>
             LET f == CHOOSE k \in failing : \A j \in failing : k <= j IN
             /\ gate.checks = SubSeq(GateCheckNames, 1, f)
             /\ gate.log = GateCheckLogs[f]
       /\ (gate.article.content_len = 50
           /\ RulesetMinLength(gate.ruleset) = 200)
             => ~gate.ret /\ gate.log = LogTooShort
       /\ (gate.article.content_len = 250 /\ gate.article.title_len = 12
           /\ RulesetMinLength(gate.ruleset) = 200
           /\ v[3] /\ v[4] /\ v[5])
             => gate.ret

\* a body of 50 with min_length 200 and a short title: rejected at the first
\* check, reported as too short
C11_Witness ==
    /\ gate.pc = "returned"
    /\ gate.article.content_len = 50
    /\ RulesetMinLength(gate.ruleset) = 200
    /\ gate.article.title_len = 9
    /\ ~gate.ret
    /\ gate.checks = <<"min_length">>
    /\ gate.log = LogTooShort

\* C12: a candidate that passes the length, title and reject-pattern checks is
\* rejected for duplicate lines exactly when it has more than 5 lines and
\* unique_lines / total_lines < min_text_ratio; with 5 or fewer lines the rule
\* never rejects; 10 identical lines at ratio 0.6 are rejected with "too many
\* duplicate lines".
C12_DuplicateLineRule ==
    LET a == gate.article
        rs == gate.ruleset
        v == GateCheckVerdicts
        duplicate == /\ a.lines > 5
                     /\ a.unique_lines * rs.ratio_den < a.lines * rs.ratio_num
    IN
    (gate.pc = "returned" /\ v[1] /\ v[2] /\ v[3]) =>
       /\ (gate.log = LogDuplicateLines) <=> duplicate
       /\ duplicate => ~gate.ret
       /\ (a.lines <= 5 /\ v[5]) => gate.ret
       /\ (a.lines = 10 /\ a.unique_lines = 1
           /\ rs.ratio_num = 6 /\ rs.ratio_den = 10)
             => ~gate.ret /\ gate.log = LogDuplicateLines

\* 10 identical lines, otherwise acceptable: rejected for duplicate lines
C12_Witness ==
    /\ gate.pc = "returned"
    /\ gate.article.lines = 10
    /\ gate.article.unique_lines = 1
    /\ gate.article.content_len >= RulesetMinLength(gate.ruleset)
    /\ gate.article.title_len >= 10
    /\ ~gate.article.reject_match
    /\ ~gate.ret
    /\ gate.log = LogDuplicateLines

(***************************************************************************)
(* Properties of extract_with_retry (SpecExtract, SpecExtractFair).        *)
(***************************************************************************)
\* C13: extract_with_retry calls extract_article at most max_retries times,
\* returns the first non-None result and does nothing after it, treats a
\* raising attempt as a failed one, returns None only after max_retries
\* failed attempts, and always returns.
C13_RetryBoundedAndTerminates ==
    /\ [](/\ ex.calls <= max_retries
          /\ ex.calls = ex.attempt + 1
          /\ ex.pc = "done" =>
                IF IsNone(ex.retry_result)
                THEN ex.calls = max_retries
                ELSE ex.retry_result = ex.result /\ ~IsNone(ex.result))
    /\ [][ex.pc = "done" => ex' = ex]_vars
    /\ <>(ex.pc = "done")

\* every attempt failed, the last by an exception: None after max_retries calls
C13_Witness ==
    /\ ex.pc = "done"
    /\ IsNone(ex.retry_result)
    /\ ex.calls = max_retries
    /\ ex.offered = <<>>
    /\ Len(ex.ruleset.method_priority) > 0

\* C14: when extract_article returns None because every strategy that ran
\* produced a candidate the gate rejected, extract_with_retry neither sleeps
\* nor calls extract_article again.
C14_NoRetryAfterGateRejection ==
    [][( /\ ex.pc = "returned"
         /\ IsNone(ex.result)
         /\ Len(ex.offered) >= 1
         /\ \A k \in 1..Len(ex.offered) : ex.offered[k].kind = "article" )
       => (ex'.calls = ex.calls /\ ex'.sleeps = ex.sleeps)]_vars

(***************************************************************************)
(* Properties of the comment splitter (SpecSplit).                         *)
(***************************************************************************)
RangeOf(f) == { f[k] : k \in DOMAIN f }

RECURSIVE Flatten(_)
Flatten(ss) == IF ss = <<>> THEN <<>> ELSE Head(ss) \o Flatten(Tail(ss))

NotSpace(c) == ~IsSpace(c)
NonWhitespace(text) == SelectSeq(text, NotSpace)

\* C15: with positive budgets, the first segment is no longer than the first
\* budget and every later segment no longer than the continuation budget.
C15_SegmentsWithinBudgets ==
    (split.first_comment_space > 0 /\ split.continuation_space > 0)
    => \A k \in 1..Len(split.parts) :
          Len(split.parts[k]) <= IF k = 1 THEN split.first_comment_space
                                 ELSE split.continuation_space

\* three or more segments, one cut at the budget and one at a break point
C15_Witness ==
    /\ split.pc = "split"
    /\ Len(split.parts) >= 3
    /\ "budget" \in RangeOf(split.cuts)
    /\ \E k \in 1..Len(split.cuts) :
          /\ split.cuts[k] = "break_point"
          /\ Len(split.parts[k]) < IF k = 1 THEN split.first_comment_space
                                    ELSE split.continuation_space
    /\ split.first_comment_space # split.continuation_space

\* C16: when both template overheads are smaller than max_comment_length,
\* every formatted comment fits: segment plus main overhead for the first,
\* segment plus continuation overhead for the others, at most
\* max_comment_length.
C16_FormattedCommentsFit ==
    ( /\ split.pc = "formatted"
      /\ split.main_comment_overhead < split.max_comment_length
      /\ split.continuation_overhead < split.max_comment_length )
    => \A i \in 1..Len(split.formatted_comments) :
          /\ split.formatted_comments[i] <= split.max_comment_length
          /\ Len(split.parts[i])
               + (IF i = 1 THEN split.main_comment_overhead
                  ELSE split.continuation_overhead)
               <= split.max_comment_length

\* a first comment exactly at the ceiling, followed by continuations
C16_Witness ==
    /\ split.pc = "formatted"
    /\ Len(split.formatted_comments) >= 2
    /\ split.formatted_comments[1] = split.max_comment_length
    /\ split.main_comment_overhead > split.continuation_overhead
    /\ split.main_comment_overhead > 0

\* C17: the segments emitted so far followed by the text still to split hold
\* the non-whitespace characters of the input, in order; so do the segments
\* returned.
C17_NothingLost ==
    /\ split.pc = "loop"
          => NonWhitespace(Flatten(split.parts) \o split.remaining_content)
                = NonWhitespace(split.content)
    /\ split.pc \in {"split", "formatted"}
          => NonWhitespace(Flatten(split.parts))
                = NonWhitespace(split.content)

\* a hard cut at the budget inside a word, and whitespace dropped at a boundary
C17_Witness ==
    /\ split.pc = "split"
    /\ Len(Flatten(split.parts)) < Len(split.content)
    /\ \E k \in 1..Len(split.cuts) :
          /\ split.cuts[k] = "budget"
          /\ k < Len(split.parts)
          /\ NotSpace(split.parts[k][Len(split.parts[k])])
          /\ NotSpace(Head(split.parts[k + 1]))

\* C26: every iteration of the continuation loop adds one non-empty
\* segment and, while the loop goes on, leaves strictly less text; the call
\* returns, with at least one segment, and with the text alone when the text
\* fits the first budget.
C26_SplitTerminates ==
    /\ [][split.pc = "loop" /\ split'.pc \in {"loop", "split"}
          => \/ split' = [split EXCEPT !.pc = "split"]
             \/ /\ Len(split'.parts) = Len(split.parts) + 1
                /\ split'.parts[Len(split'.parts)] # <<>>
                /\ split'.pc = "loop"
                     => Len(split'.remaining_content)
                           < Len(split.remaining_content)]_vars
    /\ [](split.pc = "split"
            => /\ Len(split.parts) >= 1
               /\ Len(split.content) <= split.first_comment_space
                    => split.parts = <<split.content>>)
    /\ <>(split.pc \in {"split", "formatted"})

\* a text cut into one-character continuation segments, all of it emitted
C26_Witness ==
    /\ split.pc = "split"
    /\ split.continuation_space = 1
    /\ Len(split.parts) >= 4
    /\ split.first_comment_space > 1

(***************************************************************************)
(* Properties of the provider configuration lookup (SpecRules).            *)
(***************************************************************************)
\* the default ruleset in any of the forms the code resolves it to
IsDefaultRuleset(r) == r.source \in {"default", "fallback", "empty"}

\* C18: a lookup for a URL or origin returns the origin's own ruleset when
\* the file of that origin exists, parses and has content.selectors, and the
\* default ruleset when the file is missing, malformed or fails validation.
C18_ProviderConfigNeverFails ==
    \A t \in Callers :
       rules.call[t].pc = "returned"
       => LET host == rules.call[t].arg.host[1] IN
          IF rules.files[host] = "valid"
          THEN rules.call[t].ret = ProviderYaml(host, "valid")
          ELSE IsDefaultRuleset(rules.call[t].ret)

\* C19: for every cache key the file is opened at most once, never once the
\* key is cached, and a cached entry is never replaced.
C19_LoadedAtMostOncePerKey ==
    /\ [](\A k \in LookupArgs :
             rules.loads[k] <= 1 /\ rules.cached_reads[k] = 0)
    /\ [][\A k \in LookupArgs :
             rules.provider_cache[k] # NoRuleset
             => rules'.provider_cache[k] = rules.provider_cache[k]]_vars

\* the origin of a host as the lookup is to normalise it: lower case, a
\* leading "www." dropped, nothing else
NormalizedOrigin(host) ==
    LET domain == lower(host) IN
    IF domain[1] = "www." THEN Tail(domain) ELSE domain

\* C27: lookups for URLs whose hosts differ only by letter case or a leading
\* "www." use the same cache key and return the same ruleset; the key is the
\* host in lower case without a leading "www.", a "www." elsewhere kept.
C27_OriginNormalized ==
    /\ \A r \in rules.resolved :
          r.arg.kind = "url" => r.key.host = NormalizedOrigin(r.arg.host)
    /\ \A r1, r2 \in rules.resolved :
          /\ r1.arg.kind = "url"
          /\ r2.arg.kind = "url"
          /\ NormalizedOrigin(r1.arg.host) = NormalizedOrigin(r2.arg.host)
          => r1.key = r2.key /\ r1.ret = r2.ret

(***************************************************************************)
(* Properties of the polling loop (SpecCycle).                             *)
(***************************************************************************)
\* C20: once shutdown has set running to false, no submission's processing
\* is begun: the one in flight completes and the rest of the batch is left.
C20_NoItemBegunAfterShutdown ==
    [][~cycle.running => ~(cycle.pc = "posts" /\ cycle'.pc = "in_flight")]_vars

\* C21: a submission that raises or fails stops nothing: every submission
\* fetched is counted by its batch, and every subreddit of the cycle is
\* visited before the cycle ends.
C21_FailuresAreLocal ==
    /\ cycle.pc \in {"posts", "in_flight"}
          => cycle.processed_count = cycle.submission - 1
    /\ cycle.returned.processed = cycle.returned.fetched
    /\ cycle.pc = "sleep" => cycle.visited = Subreddits

\* a cycle has ended in which a submission failed and submissions of the
\* same batch and of the next subreddit were begun after it
C21_Witness ==
    /\ cycle.pc = "sleep"
    /\ cycle.failures >= 1
    /\ cycle.begun_after_failure >= 2
    /\ cycle.returned.fetched = MaxBatch
    /\ cycle.returned.successful >= 1

\* C23: a strategy that raises, yields nothing, is unknown or is rejected by
\* the gate is followed by the next one: the strategies tried so far are the
\* first ones of method_priority in order, none of them but the last passed
\* the gate, and None is returned only once all of them have been tried.
C23_FailedStrategyNeverAborts ==
    ex.pc \in {"loop", "returned"}
    => /\ Len(ex.offered) <= Len(ex.ruleset.method_priority)
       /\ \A i \in 1..Len(ex.offered) :
             /\ ex.offered[i].method = ex.ruleset.method_priority[i]
             /\ i < Len(ex.offered) => ~ex.offered[i].gate
       /\ ex.pc = "loop"
            => /\ Len(ex.offered) = ex.idx - 1
               /\ \A i \in 1..Len(ex.offered) : ~ex.offered[i].gate
       /\ ex.pc = "returned" /\ IsNone(ex.result)
            => /\ Len(ex.offered) = Len(ex.ruleset.method_priority)
               /\ \A i \in 1..Len(ex.offered) : ~ex.offered[i].gate

\* the first strategy raised, the second was still run, its candidate was
\* rejected by the gate, and only then None was returned
C23_Witness ==
    /\ ex.pc = "returned"
    /\ IsNone(ex.result)
    /\ Len(ex.offered) = 2
    /\ ex.offered[1].kind = "raised"
    /\ ex.offered[2].kind = "article"
    /\ ~ex.offered[2].gate

\* C28: within one extract_article call the document at the URL is
\* requested at most once, whatever the number of strategies run.
C28_FetchedAtMostOnce == ex.fetches <= 1

\* C32: periodic cleanup runs roughly once per hour: no run of
\* 3600 // check_interval consecutive processing cycles goes by without
\* _periodic_cleanup being executed.
C32_CleanupOncePerHour ==
    cycle.since_cleanup < 3600 \div cycle.check_interval

\* C33: once running is false the sleep returns after at most one more
\* interval, no further cycle is started and the loop exits after the
\* current cycle; _cleanup runs exactly once, also when the loop exits
\* through an exception.
C33_ShutdownTerminates ==
    /\ [](cycle.slept_after_shutdown <= 1)
    /\ [][cycle'.cycles > cycle.cycles => cycle.running]_vars
    /\ [](/\ cycle.cleanup_runs <= 1
          /\ cycle.pc \in {"exited", "exited_raising"}
                => cycle.cleanup_runs = 1
          /\ cycle.pc = "exited" => ~cycle.running)
    /\ (cycle.pc # "idle" /\ ~cycle.running)
          ~> (cycle.pc \in {"exited", "exited_raising"})
    /\ (cycle.pc = "raised") ~> (cycle.pc = "exited_raising")

\* shutdown arrived while the main thread was inside time.sleep with
\* intervals still to go: that interval was the last, and the loop exited
\* through _cleanup
C33_Witness ==
    /\ cycle.pc = "exited"
    /\ cycle.cleanup_runs = 1
    /\ cycle.slept_after_shutdown = 1
    /\ cycle.total_slept < cycle.duration

(***************************************************************************)
(* Properties of final_content_cleanup (SpecCleanup).                      *)
(***************************************************************************)
\* C22: the result is never longer than max_length; when the cleaned text
\* is longer, the result ends at its last period or paragraph break within
\* the first max_length characters if that lies at or after 80% of
\* max_length, and is the first max_length characters otherwise.
C22_TruncatedAtBoundary ==
    cleanup.pc = "returned" /\ cleanup.content # <<>>
    => LET cleaned == cleaned_content(cleanup.content)
           head == PyPrefix(cleaned, cleanup.max_length)
           boundary == Max({rfind(head, <<".">>),
                            rfind(head, <<"\n", "\n">>)}) IN
       /\ Len(cleanup.ret) <= cleanup.max_length
       /\ Len(cleaned) > cleanup.max_length
            => IF boundary * 10 >= cleanup.max_length * 8
               THEN cleanup.ret = PyPrefix(head, boundary + 1)
               ELSE cleanup.ret = head

(***************************************************************************)
(* Properties of _find_good_break_point (SpecBreak).                       *)
(***************************************************************************)
\* the positions at which one of the six sentence endings occurs
EndingPositions(text) ==
    { i \in 0..(Len(text) - 2) :
        \E k \in 1..Len(sentence_endings) :
           SubSeq(text, i + 1, i + 2) = sentence_endings[k] }

\* C24: the break is just after the last paragraph break if that lies at or
\* after 70% of the candidate; else just after a sentence ending at or after
\* 70%; else just after the last space at or after 80%; else a hard cut is
\* signalled; a returned position is in 1..L.
C24_BreakPreferenceStrict ==
    brk.pc = "returned"
    => LET L == Len(brk.text)
           paragraph == rfind(brk.text, <<"\n", "\n">>)
           sentences == { i \in EndingPositions(brk.text) : i * 10 >= L * 7 }
           space == rfind(brk.text, <<" ">>) IN
       /\ brk.ret = -1 \/ brk.ret \in 1..L
       /\ IF paragraph >= 0 /\ paragraph * 10 >= L * 7
          THEN brk.ret = paragraph + 2
          ELSE IF sentences # {}
          THEN \E i \in sentences : brk.ret = i + 2
          ELSE IF space >= 0 /\ space * 10 >= L * 8
          THEN brk.ret = space + 1
          ELSE brk.ret = -1

\* C25: when the sentence rule decides, the break is just after the last
\* sentence ending of the candidate, whichever of the six endings it is.
C25_LastSentenceEndingWins ==
    brk.pc = "returned"
    => LET L == Len(brk.text)
           paragraph == rfind(brk.text, <<"\n", "\n">>)
           sentences == { i \in EndingPositions(brk.text) : i * 10 > L * 7 } IN
       ~(paragraph * 10 > L * 7) /\ sentences # {}
       => brk.ret = Max(sentences) + 2

DiscoveryJobs(i) ==
    jobs["posts"][i]
      + Cardinality({ w \in Workers : /\ run[w].ep = "process_discovered_post"
                                      /\ run[w].item = i
                                      /\ run[w].pc # "done" })

\* C36: in queue mode at most one processing job for an item id is pending
\* or running at any time: a polling cycle that sees a submission whose job
\* has not yet been recorded does not enqueue it again.
C36_AtMostOneJobPerItem == \A i \in Items : DiscoveryJobs(i) <= 1

(***************************************************************************)
(* Properties of the delivery path with a failing store (SpecStorage).     *)
(***************************************************************************)
\* the existence check of invocation p ended in a storage error
CheckFailed(p) == run[p].ep # "none" /\ run[p].check_error

\* C30: when the existence check fails with a storage error the item is
\* reported as processed: the invocation returns at once (True from the bot,
\* skipped from the worker) with no fetch, no post_comments call and no
\* record write, and the step leaves the store and the channel as they were.
C30_CheckErrorSkipsItem ==
    /\ [](\A p \in Procs :
            CheckFailed(p) =>
               /\ run[p].pc = "done"
               /\ run[p].ret \in {"True", "skipped"}
               /\ ~run[p].fetched
               /\ ~run[p].posted
               /\ run[p].writes = 0)
    /\ [][\A p \in Procs :
            (run'[p] # run[p] /\ run'[p].check_error)
               => /\ records' = records
                  /\ postCalls' = postCalls
                  /\ botCommented' = botCommented]_vars

\* a worker's check failed for an item with no record: the job ended as
\* skipped and the item still has no record
C30_Witness ==
    \E w \in Workers :
       /\ CheckFailed(w)
       /\ run[w].ep = "process_discovered_post"
       /\ run[w].ret = "skipped"
       /\ run[w].item \notin DOMAIN records
       /\ postCalls[run[w].item] = 0

(***************************************************************************)
(* Properties of post_comments (SpecChan).                                 *)
(***************************************************************************)
\* C29: chunk 0 is posted as the root reply to the submission before any
\* continuation; the continuations are posted in increasing chunk index,
\* each as a reply to the root comment; and no continuation is posted when
\* posting the root comment failed.
C29_ChannelOrdering ==
    /\ chan.log # <<>> =>
         chan.log[1] = [chunk |-> 0, parent |-> "submission"]
    /\ \A j \in 2..Len(chan.log) :
         /\ chan.log[j].parent = "root"
         /\ chan.log[j].chunk > chan.log[j - 1].chunk
    /\ chan.root_failed => chan.log = <<>>

\* three chunks were posted: the root, then chunk 1 and chunk 3 after the
\* reply with chunk 2 failed
C29_Witness ==
    /\ chan.pc = "returned"
    /\ chan.ret = "True"
    /\ Len(chan.comments) = 4
    /\ Len(chan.log) = 3
    /\ chan.log[3].chunk = 3

\* C34: once the root comment is posted, a failing continuation stops
\* nothing: post_comments returns only after every continuation has been
\* attempted, and returns True; False is returned only when no root comment
\* was posted by the call.
C34_PartialDeliveryIsSuccess ==
    chan.pc = "returned"
       => /\ chan.log # <<>>
               => /\ chan.ret = "True"
                  /\ chan.i = Len(chan.comments)
          /\ chan.ret = "False" => chan.log = <<>>

\* every continuation of a three-chunk comment failed after the root was
\* posted, and the call returned True
C34_Witness ==
    /\ chan.pc = "returned"
    /\ chan.ret = "True"
    /\ Len(chan.comments) = 3
    /\ chan.i = 3
    /\ chan.log = << [chunk |-> 0, parent |-> "submission"] >>


\* C35 as stated: on a submission that carries a root comment of the bot,
\* a call of post_comments posts nothing and returns True, and the
\* submission never carries more than one root comment of the bot.
C35_LaterCallsReturnTrue ==
    /\ chan.roots <= 1
    /\ (chan.pc = "returned" /\ chan.already)
          => (chan.log = <<>> /\ chan.ret = "True")

\* C35, amended: on a submission that carries a root comment of the bot, a
\* call of post_comments posts nothing; it returns True unless reading the
\* submission's comments raised, and then False; the submission never
\* carries more than one root comment of the bot.
C35_LaterCallsPostNothing ==
    /\ chan.roots <= 1
    /\ chan.already => chan.log = <<>>
    /\ (chan.pc = "returned" /\ chan.already)
          => (chan.ret = IF chan.scan_raised THEN "False" ELSE "True")

\* the first call posted the root comment; the second call, with comments
\* to post, found it and returned True without posting
C35_Witness ==
    /\ chan.calls = 2
    /\ chan.pc = "returned"
    /\ chan.already
    /\ chan.comments # <<>>
    /\ chan.ret = "True"
    /\ chan.roots = 1


C38_DegenerateBudgetsTerminate ==
    /\ [][split.pc = "loop" /\ split'.pc = "loop"
          => Len(split'.remaining_content)
                < Len(split.remaining_content)]_vars
    /\ [](split.pc = "split"
            => NonWhitespace(Flatten(split.parts))
                  = NonWhitespace(split.content))
    /\ <>(split.pc \in {"split", "formatted"})

====
